---- MODULE Spec2Model ----
(***************************************************************************)
(* Host-side PN532 driver (testutils/pn532/pn532.py): checksum codec,      *)
(* frame codec, link transport, register access layer with its cache, RF   *)
(* configuration manager, command dispatcher and target discovery.         *)
(*                                                                         *)
(* Every driver method is an operator that takes the driver object `self`  *)
(* (its fields plus the serial channel) and returns a record               *)
(*   [self |-> the object afterwards, tag, val, exc]                       *)
(* where tag is "None" (Python None), "Bytes" (a byte sequence / list),    *)
(* "Tag" (a tag object) or "Raise" (an exception, named by exc).            *)
(***************************************************************************)
EXTENDS Integers, Sequences, FiniteSets, TLC

VARIABLES
    register_cache,         \* PN532.register_cache: address -> value
    rf_configuration_cache, \* PN532.rf_configuration_cache: item -> value sequence
    rx,                     \* bytes waiting in the serial input buffer
    dev_regs,               \* history: value last carried to each register by a WRITE_REGISTER
    responsive,             \* history: every command so far was answered with its own echo
    call,                   \* the driver call that completed last
    conn,                   \* Casimir.conn: "None" or "open"
    rf_on,                  \* Casimir.rf_on
    sent,                   \* history: the requests sent since the connection was opened
    failed                  \* history: a Casimir operation ended in an exception

pn532_vars == <<register_cache, rf_configuration_cache, rx, dev_regs, responsive, call>>
casimir_vars == <<conn, rf_on, sent, failed>>
vars == <<pn532_vars, casimir_vars>>

-----------------------------------------------------------------------------
(* Bounds of the model *)

\* longest input buffer the serial channel is let to accumulate
MaxRx == 12
\* most (address, value) pairs in one write_registers / read_registers call
MaxPairs == 2

-----------------------------------------------------------------------------
(* Bytes and bit operations *)

Min(a, b) == IF a < b THEN a ELSE b

RECURSIVE BitAnd(_, _)
BitAnd(a, b) ==
    IF a = 0 \/ b = 0 THEN 0
    ELSE (a % 2) * (b % 2) + 2 * BitAnd(a \div 2, b \div 2)

RECURSIVE BitOr(_, _)
BitOr(a, b) ==
    IF a = 0 THEN b
    ELSE IF b = 0 THEN a
    ELSE (IF a % 2 = 1 \/ b % 2 = 1 THEN 1 ELSE 0) + 2 * BitOr(a \div 2, b \div 2)

RECURSIVE BitXor(_, _)
BitXor(a, b) ==
    IF a = 0 THEN b
    ELSE IF b = 0 THEN a
    ELSE ((a + b) % 2) + 2 * BitXor(a \div 2, b \div 2)

RECURSIVE Pow2(_)
Pow2(n) == IF n = 0 THEN 1 ELSE 2 * Pow2(n - 1)

Shl(a, n) == a * Pow2(n)
Shr(a, n) == a \div Pow2(n)

\* (~x & 0xFF) for a non-negative x
InvByte(x) == 255 - (x % 256)

\* sum(s[lo..hi]), halving the range so that long frames stay shallow
RECURSIVE SumRange(_, _, _)
SumRange(s, lo, hi) ==
    IF lo > hi THEN 0
    ELSE IF lo = hi THEN s[lo]
    ELSE SumRange(s, lo, (lo + hi) \div 2) + SumRange(s, (lo + hi) \div 2 + 1, hi)

SumSeq(s) == SumRange(s, 1, Len(s))

RECURSIVE Concat(_)
Concat(ss) == IF ss = <<>> THEN <<>> ELSE Head(ss) \o Concat(Tail(ss))

Range(s) == {s[i] : i \in DOMAIN s}

\* bytearray(n): n zero bytes
bytearray(n) == [i \in 1..n |-> 0]

-----------------------------------------------------------------------------
(* Checksum codec *)

\* the loop body: one byte folded into the running CRC
crc16a_byte(w_crc, byte) ==
    LET b1 == BitXor(byte, BitAnd(w_crc, 255))
        b2 == BitAnd(BitXor(b1, Shl(b1, 4)), 255)
    IN  BitAnd(BitXor(BitXor(BitXor(Shr(w_crc, 8), Shl(b2, 8)), Shl(b2, 3)), Shr(b2, 4)),
               65535)

\* the loop over data[lo..hi], first half then second half
RECURSIVE crc16a_range(_, _, _, _)
crc16a_range(w_crc, data, lo, hi) ==
    IF lo > hi THEN w_crc
    ELSE IF lo = hi THEN crc16a_byte(w_crc, data[lo])
    ELSE LET w == crc16a_range(w_crc, data, lo, (lo + hi) \div 2)
         IN  IF w \in 0..65535                    \* wCrc is a 16-bit value
             THEN crc16a_range(w, data, (lo + hi) \div 2 + 1, hi)
             ELSE w

crc16a_from(w_crc, data) == crc16a_range(w_crc, data, 1, Len(data))

\* (mutant) the two bytes of the register in the other order
crc16a_high_first(data) ==
    LET w_crc == crc16a_from(25443, data)
    IN  <<BitAnd(Shr(w_crc, 8), 255), BitAnd(w_crc, 255)>>

crc16a(data) ==
    LET w_crc == crc16a_from(25443, data)
    IN  <<BitAnd(w_crc, 255), BitAnd(Shr(w_crc, 8), 255)>>

with_crc16a(data) == data \o crc16a(data)

\* the copy of the two functions in casimir.py
casimir_crc16a(data) ==
    LET w_crc == crc16a_from(25443, data)
    IN  <<BitAnd(w_crc, 255), BitAnd(Shr(w_crc, 8), 255)>>

casimir_with_crc16a(data) == data \o casimir_crc16a(data)

\* the values w_crc takes in the loop: before the first byte, then after each
crc16a_registers(data) == [i \in 1..(Len(data) + 1) |-> crc16a_range(25443, data, 1, i - 1)]

-----------------------------------------------------------------------------
(* Command codes, register addresses, configuration items *)

GET_FIRMWARE_VERSION == 2
READ_REGISTER == 6
WRITE_REGISTER == 8
SAM_CONFIGURATION == 20
RF_CONFIGURATION == 50
IN_LIST_PASSIVE_TARGET == 74
IN_DATA_EXCHANGE == 64
IN_COMMUNICATE_THRU == 66

REG_CONTROL == 25404
REG_BIT_FRAMING == 25405
REG_TX_MODE == 25346
REG_RX_MODE == 25347
REG_TX_CONTROL == 25348
REG_TX_AUTO == 25349
REG_RX_THRESHOLD == 25352
REG_DEMOD == 25353
REG_GS_N_OFF == 25363
REG_TX_BIT_PHASE == 25365
REG_RF_CFG == 25366
REG_GS_N_ON == 25367
REG_CWG_S_P == 25368
REG_MOD_GS_P == 25369

RF_FIELD == 1
VARIOUS_TIMINGS == 2
MAX_RETRIES == 5

\* host -> device and device -> host frame identifiers, and the fixed ACK frame
TFI_HOST == 212
TFI_DEVICE == 213
ACK_FRAME == <<0, 0, 255, 0, 255, 0>>

-----------------------------------------------------------------------------
(* Results of driver methods *)

RetNone(s) == [self |-> s, tag |-> "None", val |-> <<>>, exc |-> ""]
RetBytes(s, b) == [self |-> s, tag |-> "Bytes", val |-> b, exc |-> ""]
RetRaise(s, e) == [self |-> s, tag |-> "Raise", val |-> <<>>, exc |-> e]

\* Python's `not rsp` for a result that is None or a byte sequence
Falsy(r) == r.tag = "None" \/ (r.tag = "Bytes" /\ r.val = <<>>)

-----------------------------------------------------------------------------
(* Frame codec *)

\* (mutant) the data checksum leaves the frame identifier out
construct_frame_data_only(data) ==
    LET len1 == Len(data) + 1
    IN  <<0, 0, 255, len1 % 256, (InvByte(len1) + 1) % 256, TFI_HOST>>
        \o data
        \o <<(InvByte(SumSeq(data)) + 1) % 256>>
        \o <<0>>

construct_frame(data) ==
    LET len1 == Len(data) + 1
        data_sum == TFI_HOST + SumSeq(data)
    IN  <<0, 0, 255, len1 % 256, (InvByte(len1) + 1) % 256, TFI_HOST>>
        \o data
        \o <<(InvByte(data_sum) + 1) % 256>>
        \o <<0>>

-----------------------------------------------------------------------------
(* Serial channel: self.device.  s.rx is the input buffer, s.inp the byte  *)
(* streams the device will answer the next frames with, s.log the reads    *)
(* and writes of the current call, s.errs what the call logged as errors.  *)

\* device.read(n): up to n bytes, fewer when the read times out
device_read(s, n) ==
    LET k == IF n <= 0 THEN 0 ELSE Min(n, Len(s.rx))
        got == SubSeq(s.rx, 1, k)
    IN  [self |-> [s EXCEPT !.rx = SubSeq(s.rx, k + 1, Len(s.rx)),
                            !.log = Append(s.log, [op |-> "read", n |-> n, data |-> got])],
         data |-> got]

\* device.write(data)
device_write(s, data) ==
    [s EXCEPT !.log = Append(s.log, [op |-> "write", n |-> Len(data), data |-> data])]

log_error(s, what) == [s EXCEPT !.errs = Append(s.errs, what)]

-----------------------------------------------------------------------------
(* The device side of the link: what the chip puts on the wire in answer   *)
(* to a frame.  A reply is a record [k, data]; the bytes are built from    *)
(* the command byte of the frame that was written.                         *)

\* a device -> host information frame around payload
response_frame(payload) ==
    LET len1 == (Len(payload) + 1) % 256
    IN  <<0, 0, 255, len1, (256 - len1) % 256, TFI_DEVICE>>
        \o payload
        \o <<(256 - ((TFI_DEVICE + SumSeq(payload)) % 256)) % 256, 0>>

RECURSIVE StartCodeAt(_, _)
StartCodeAt(frame, i) ==
    IF i > Len(frame) THEN 0
    ELSE IF frame[i] = 255 THEN i
    ELSE StartCodeAt(frame, i + 1)

\* the command byte carried by a host -> device frame (after 00 FF LEN LCS TFI)
CommandOf(frame) ==
    LET i == StartCodeAt(frame, 1)
    IN  IF i = 0 \/ i + 4 > Len(frame) THEN 0 ELSE frame[i + 4]

\* the payload (command byte and arguments) of a frame
PayloadOf(frame) ==
    LET i == StartCodeAt(frame, 1)
    IN  IF i = 0 THEN <<>> ELSE SubSeq(frame, i + 4, Len(frame) - 2)

SetAt(s, i, v) == [s EXCEPT ![i] = v]

\* the bytes the device sends after the echoed command byte: one byte per
\* address asked for a READ_REGISTER (taken from reply.data in turn), nothing for
\* the commands that only configure, reply.data itself for any other command
device_data(reply, frame) ==
    LET cmd == CommandOf(frame)
        asked == (Len(PayloadOf(frame)) - 1) \div 2
    IN  IF cmd = READ_REGISTER
        THEN IF reply.data = <<>> THEN <<>>
             ELSE [i \in 1..asked |-> reply.data[((i - 1) % Len(reply.data)) + 1]]
        ELSE IF cmd \in {WRITE_REGISTER, RF_CONFIGURATION, SAM_CONFIGURATION}
        THEN <<>>
        ELSE reply.data

device_frame(reply, frame) ==
    response_frame(<<(CommandOf(frame) + 1) % 256>> \o device_data(reply, frame))

device_answer_to(reply, frame, good) ==
    CASE reply.k = "silent"     -> <<>>
      [] reply.k = "ack_only"   -> ACK_FRAME
      [] reply.k = "ok"         -> ACK_FRAME \o good
      [] reply.k = "bad_echo"   -> ACK_FRAME \o response_frame(<<(CommandOf(frame) + 3) % 256>>
                                                               \o Tail(PayloadOf(good)))
      [] reply.k = "empty"      -> ACK_FRAME \o response_frame(<<>>)
      [] reply.k = "raw"        -> ACK_FRAME \o response_frame(reply.data)
      [] reply.k = "bad_ack"    -> <<0, 0, 255, 255, 0, 0>> \o good
      [] reply.k = "bad_start"  -> ACK_FRAME \o SetAt(good, 3, 254)
      [] reply.k = "bad_lcs"    -> ACK_FRAME \o SetAt(good, 5, (good[5] + 1) % 256)
      [] reply.k = "bad_tfi"    -> ACK_FRAME \o SetAt(good, 6, TFI_HOST)
      [] reply.k = "bad_dcs"    -> ACK_FRAME \o SetAt(good, Len(good) - 1,
                                                      (good[Len(good) - 1] + 1) % 256)
      [] reply.k = "bad_post"   -> ACK_FRAME \o SetAt(good, Len(good), 1)
      [] reply.k = "short_head" -> ACK_FRAME \o SubSeq(good, 1, 4)
      [] reply.k = "no_dcs"     -> ACK_FRAME \o SubSeq(good, 1, Len(good) - 2)
      [] reply.k = "no_post"    -> ACK_FRAME \o SubSeq(good, 1, Len(good) - 1)

device_answer(reply, frame) == device_answer_to(reply, frame, device_frame(reply, frame))

-----------------------------------------------------------------------------
(* Link transport.  get_device_response is written as the chain of its    *)
(* steps, each step an operator that is handed what the steps before it    *)
(* read: gdr_ack (the 6 ACK bytes), gdr_head (the response head),          *)
(* gdr_length and gdr_tfi (its checks), gdr_data (payload and checksum),   *)
(* gdr_postamble (postamble, then the host ACK).                           *)

gdr_postamble(r5, data_packet) ==
    IF Len(r5.data) = 0
    THEN RetRaise(r5.self, "IndexError")               \* bytearray(read(1))[0]
    ELSE RetBytes(device_write(r5.self, ACK_FRAME), data_packet)

\* (mutant) a frame failing its data checksum is dropped without the host ACK
gdr_checksum_strict(r4, tfi, data_packet) ==
    IF Len(r4.data) = 0
    THEN RetRaise(r4.self, "IndexError")
    ELSE IF (tfi + SumSeq(data_packet) + r4.data[1]) % 256 # 0
    THEN RetNone(log_error(r4.self, "data checksum"))
    ELSE gdr_postamble(device_read(r4.self, 1), data_packet)

gdr_checksum(r4, tfi, data_packet) ==
    IF Len(r4.data) = 0
    THEN RetRaise(r4.self, "IndexError")               \* bytearray(read(1))[0]
    ELSE gdr_postamble(
             device_read(IF (tfi + SumSeq(data_packet) + r4.data[1]) % 256 # 0
                         THEN log_error(r4.self, "data checksum") ELSE r4.self, 1),
             data_packet)

gdr_data(r3, tfi) == gdr_checksum(device_read(r3.self, 1), tfi, r3.data)

\* (mutant) the data packet is read with the length byte as its size
gdr_tfi_full_length(s, frame) ==
    IF Len(frame) < 6
    THEN RetRaise(s, "IndexError")
    ELSE IF frame[6] # TFI_DEVICE
    THEN RetNone(log_error(s, "tfi"))
    ELSE gdr_data(device_read(s, frame[4]), frame[6])

gdr_tfi(s, frame) ==
    IF Len(frame) < 6
    THEN RetRaise(s, "IndexError")                     \* frame[5]
    ELSE IF frame[6] # TFI_DEVICE
    THEN RetNone(log_error(s, "tfi"))
    ELSE gdr_data(device_read(s, frame[4] - 1), frame[6])

\* (mutant) a head failing its length checksum is parsed all the same
gdr_length_lenient(s, frame) ==
    IF Len(frame) < 5
    THEN RetRaise(s, "IndexError")
    ELSE gdr_tfi(IF (frame[5] + frame[4]) % 256 # 0
                 THEN log_error(s, "length checksum") ELSE s,
                 frame)

gdr_length(s, frame) ==
    IF Len(frame) < 5
    THEN RetRaise(s, "IndexError")                     \* frame[3] or frame[4]
    ELSE IF (frame[5] + frame[4]) % 256 # 0
    THEN RetNone(log_error(s, "length checksum"))
    ELSE gdr_tfi(s, frame)

gdr_head(r2) ==
    IF Len(r2.data) = 0
    THEN RetNone(r2.self)
    ELSE gdr_length(IF SubSeq(r2.data, 1, Min(3, Len(r2.data))) # <<0, 0, 255>>
                    THEN log_error(r2.self, "start") ELSE r2.self,
                    r2.data)

\* (mutant) anything but the ACK frame ends the call
gdr_ack_strict(r1) ==
    IF Len(r1.data) = 0
    THEN RetNone(log_error(r1.self, "no response"))
    ELSE IF r1.data # ACK_FRAME
    THEN RetNone(log_error(r1.self, "no ack"))
    ELSE gdr_head(device_read(r1.self, 6))

gdr_ack(r1) ==
    IF Len(r1.data) = 0
    THEN RetNone(log_error(r1.self, "no response"))
    ELSE gdr_head(device_read(IF r1.data # ACK_FRAME
                              THEN log_error(r1.self, "no ack") ELSE r1.self, 6))

get_device_response(s) == gdr_ack(device_read(s, 6))

\* the device answers the frame just written with the next reply of s.inp
device_answers(s, frame) ==
    IF s.inp = <<>> THEN s
    ELSE [s EXCEPT !.rx = @ \o device_answer(Head(s.inp), frame), !.inp = Tail(s.inp)]

\* (mutant) the frame is written a second time before the response is read
send_frame_twice(s, frame) ==
    get_device_response(device_answers(device_write(device_write(s, frame), frame), frame))

send_frame(s, frame) ==
    get_device_response(device_answers(device_write(s, frame), frame))

-----------------------------------------------------------------------------
(* Command dispatcher *)

\* (mutant) a missing response is raised instead of returned as None
execute_command_rsp_raising(rsp, command) ==
    IF rsp.tag = "Raise" THEN rsp
    ELSE IF Falsy(rsp) THEN RetRaise(rsp.self, "RuntimeError")
    ELSE IF rsp.val[1] # command + 1 THEN RetRaise(rsp.self, "RuntimeError")
    ELSE RetBytes(rsp.self, Tail(rsp.val))

\* (mutant) the echoed command byte is checked but left in the result
execute_command_rsp_unstripped(rsp, command) ==
    IF rsp.tag = "Raise" THEN rsp
    ELSE IF Falsy(rsp) THEN RetNone(rsp.self)
    ELSE IF rsp.val[1] # command + 1 THEN RetRaise(rsp.self, "RuntimeError")
    ELSE RetBytes(rsp.self, rsp.val)

execute_command_rsp(rsp, command) ==
    IF rsp.tag = "Raise" THEN rsp
    ELSE IF Falsy(rsp) THEN RetNone(rsp.self)
    ELSE IF rsp.val[1] # command + 1 THEN RetRaise(rsp.self, "RuntimeError")
    ELSE RetBytes(rsp.self, Tail(rsp.val))

execute_command(s, command, data) ==
    execute_command_rsp(send_frame(s, construct_frame(<<command>> \o data)), command)

-----------------------------------------------------------------------------
(* Register access layer *)

\* struct.pack(">H", register) and struct.pack(">HB", reg, val)
pack_H(register) == <<(register \div 256) % 256, register % 256>>
pack_HB(reg, val) == pack_H(reg) \o <<val>>

\* a dict given as its (key, value) items in insertion order
Keys(items) == {items[i][1] : i \in DOMAIN items}
ValueOf(items, key) == items[CHOOSE i \in DOMAIN items : items[i][1] = key][2]

\* {**cache, **registers}
dict_merge(cache, items) ==
    [r \in (DOMAIN cache) \cup Keys(items) |->
        IF r \in Keys(items) THEN ValueOf(items, r) ELSE cache[r]]

\* cache[key] = value
dict_set(cache, key, value) ==
    [c \in (DOMAIN cache) \cup {key} |-> IF c = key THEN value ELSE cache[c]]

read_registers_rsp(rsp) ==
    IF rsp.tag = "Raise" THEN rsp
    ELSE IF Falsy(rsp) THEN RetRaise(rsp.self, "NameError")      \* {args} is unbound
    ELSE RetBytes(rsp.self, rsp.val)

\* (mutant) one cached address is enough to answer from the cache
read_registers_any(s, registers, cache) ==
    IF cache /\ \E i \in DOMAIN registers : registers[i] \in DOMAIN s.register_cache
    THEN RetBytes(s, [i \in DOMAIN registers |->
                        IF registers[i] \in DOMAIN s.register_cache
                        THEN s.register_cache[registers[i]] ELSE 0])
    ELSE read_registers_rsp(
             execute_command(s, READ_REGISTER,
                             Concat([i \in DOMAIN registers |-> pack_H(registers[i])])))

read_registers(s, registers, cache) ==
    IF cache /\ \A i \in DOMAIN registers : registers[i] \in DOMAIN s.register_cache
    THEN RetBytes(s, [i \in DOMAIN registers |-> s.register_cache[registers[i]]])
    ELSE read_registers_rsp(
             execute_command(s, READ_REGISTER,
                             Concat([i \in DOMAIN registers |-> pack_H(registers[i])])))

\* (mutant) elision that looks only at whether the address is cached
difference_by_address(s, registers, cache) ==
    SelectSeq(registers,
              LAMBDA p : ~cache \/ p[1] \notin DOMAIN s.register_cache)

\* the items of registers that write_registers sends to the device
difference(s, registers, cache) ==
    SelectSeq(registers,
              LAMBDA p : \/ ~cache
                         \/ p[1] \notin DOMAIN s.register_cache
                         \/ s.register_cache[p[1]] # p[2])

\* (mutant) the cache is replaced by the mapping instead of merged with it
write_registers_rsp_replace(rsp, registers) ==
    IF rsp.tag = "Raise" THEN rsp
    ELSE RetNone([rsp.self EXCEPT !.register_cache = dict_merge(<<>>, registers)])

write_registers_rsp(rsp, registers) ==
    IF rsp.tag = "Raise" THEN rsp
    ELSE RetNone([rsp.self EXCEPT !.register_cache = dict_merge(@, registers)])

write_registers_diff(s, registers, diff) ==
    IF diff = <<>> THEN RetNone(s)
    ELSE write_registers_rsp(
             execute_command(s, WRITE_REGISTER,
                             Concat([i \in DOMAIN diff |-> pack_HB(diff[i][1], diff[i][2])])),
             registers)

write_registers(s, registers, cache) ==
    write_registers_diff(s, registers, difference(s, registers, cache))

-----------------------------------------------------------------------------
(* RF configuration manager *)

rf_configuration_rsp(rsp, cfg_item, value) ==
    IF rsp.tag = "Raise" THEN rsp
    ELSE RetNone([rsp.self EXCEPT !.rf_configuration_cache = dict_set(@, cfg_item, value)])

\* (mutant) a cached item suppresses the command whatever value it was cached with
rf_configuration_by_item(s, cfg_item, value, cache) ==
    IF cache /\ cfg_item \in DOMAIN s.rf_configuration_cache
    THEN RetNone(s)
    ELSE rf_configuration_rsp(
             execute_command(s, RF_CONFIGURATION, <<cfg_item>> \o value), cfg_item, value)

rf_configuration(s, cfg_item, value, cache) ==
    IF /\ cache
       /\ cfg_item \in DOMAIN s.rf_configuration_cache
       /\ s.rf_configuration_cache[cfg_item] = value
    THEN RetNone(s)
    ELSE rf_configuration_rsp(
             execute_command(s, RF_CONFIGURATION, <<cfg_item>> \o value), cfg_item, value)

-----------------------------------------------------------------------------
(* Construction of the driver *)

_LONG_PREAMBLE == bytearray(20)

RetBool(s, b) == [self |-> s, tag |-> "Bool", val |-> b, exc |-> ""]

\* (mutant) the echoed command byte of the firmware response is not looked at
vfv_rsp_any_echo(rsp) ==
    IF rsp.tag = "Raise" THEN rsp
    ELSE IF Falsy(rsp) THEN RetRaise(rsp.self, "RuntimeError")
    ELSE IF Len(rsp.val) # 5
    THEN RetBool(log_error(rsp.self, "firmware"), FALSE)
    ELSE RetBool(rsp.self, rsp.val[2] = 50)

vfv_rsp(rsp) ==
    IF rsp.tag = "Raise" THEN rsp
    ELSE IF Falsy(rsp) THEN RetRaise(rsp.self, "RuntimeError")
    ELSE IF rsp.val[1] # GET_FIRMWARE_VERSION + 1 \/ Len(rsp.val) # 5
    THEN RetBool(log_error(rsp.self, "firmware"), FALSE)
    ELSE RetBool(rsp.self, rsp.val[2] = 50)

verify_firmware_version(s) ==
    vfv_rsp(send_frame(s, _LONG_PREAMBLE \o construct_frame(<<GET_FIRMWARE_VERSION>>)))

\* device.flushInput()
flushInput(s) == [s EXCEPT !.rx = <<>>]

init_rf_rsp(rsp) ==
    IF rsp.tag = "Raise" THEN rsp
    ELSE IF Falsy(rsp) THEN RetRaise(rsp.self, "RuntimeError")
    ELSE RetNone(rsp.self)

init_sam_rsp(rsp) ==
    IF rsp.tag = "Raise" THEN rsp
    ELSE IF Falsy(rsp) THEN RetRaise(rsp.self, "RuntimeError")
    ELSE init_rf_rsp(send_frame(flushInput(rsp.self),
                                construct_frame(<<RF_CONFIGURATION, MAX_RETRIES, 0, 0, 0>>)))

\* (mutant) the outcome of the firmware check is not looked at
init_firmware_unchecked(r) ==
    IF r.tag = "Raise" THEN r
    ELSE init_sam_rsp(send_frame(r.self, _LONG_PREAMBLE
                                         \o construct_frame(<<SAM_CONFIGURATION, 1, 0>>)))

init_firmware(r) ==
    IF r.tag = "Raise" THEN r
    ELSE IF ~r.val THEN RetRaise(r.self, "RuntimeError")
    ELSE init_sam_rsp(send_frame(r.self, _LONG_PREAMBLE
                                         \o construct_frame(<<SAM_CONFIGURATION, 1, 0>>)))

\* PN532.__init__ on a machine with that many serial ports, the line holding
\* the bytes in noise, the device answering with script
__init__(ports, noise, script) ==
    IF ports = 0
    THEN RetRaise([register_cache |-> <<>>, rf_configuration_cache |-> <<>>,
                   rx |-> noise, inp |-> script, log |-> <<>>, errs |-> <<>>],
                  "IndexError")
    ELSE init_firmware(verify_firmware_version(flushInput(device_write(
             [register_cache |-> <<>>, rf_configuration_cache |-> <<>>,
              rx |-> noise, inp |-> script, log |-> <<>>, errs |-> <<>>],
             _LONG_PREAMBLE \o ACK_FRAME))))

-----------------------------------------------------------------------------
(* Modulation configurator: transceive_raw.  Its arguments are the record  *)
(* a = [data, type_, crc, bits, bitrate, timeout, cache_configuration],    *)
(* the timeout in microseconds (timeout * 1000000).                        *)

_BITRATE(bitrate) ==
    CASE bitrate = 106 -> 0 [] bitrate = 212 -> 1 [] bitrate = 424 -> 2 [] bitrate = 848 -> 3

_FRAMING(type_) ==
    CASE type_ = "A" -> 0 [] type_ = "DEP" -> 1 [] type_ = "F" -> 2 [] type_ = "B" -> 3

\* _TIMEOUT = {n: 100 * 2 ** (n - 1) for n in range(0x01, 0x10)}
_TIMEOUT_KEYS == 1..15
_TIMEOUT(n) == 100 * Pow2(n - 1)

_REGISTER_CONFIGURATION_FOR_TYPE(type_) ==
    CASE type_ = "A" ->
            <<<<REG_CONTROL, 16>>, <<REG_TX_CONTROL, 131>>, <<REG_RX_THRESHOLD, 133>>,
              <<REG_DEMOD, 77>>, <<REG_GS_N_OFF, 111>>, <<REG_TX_BIT_PHASE, 135>>,
              <<REG_RF_CFG, 89>>, <<REG_GS_N_ON, 244>>, <<REG_CWG_S_P, 63>>,
              <<REG_MOD_GS_P, 17>>>>
      [] type_ = "B" ->
            <<<<REG_CONTROL, 16>>, <<REG_TX_CONTROL, 131>>, <<REG_RX_THRESHOLD, 133>>,
              <<REG_DEMOD, 77>>, <<REG_GS_N_OFF, 111>>,
              <<REG_RF_CFG, 89>>, <<REG_GS_N_ON, 255>>, <<REG_CWG_S_P, 63>>,
              <<REG_MOD_GS_P, 23>>>>
      [] type_ = "F" ->
            <<<<REG_CONTROL, 16>>, <<REG_TX_CONTROL, 131>>, <<REG_RX_THRESHOLD, 133>>,
              <<REG_DEMOD, 65>>, <<REG_GS_N_OFF, 111>>, <<REG_TX_BIT_PHASE, 143>>,
              <<REG_RF_CFG, 105>>, <<REG_GS_N_ON, 255>>, <<REG_CWG_S_P, 63>>,
              <<REG_MOD_GS_P, 17>>>>

\* (mutant) the least index whose duration exceeds the timeout
timeout_index_strict(timeout) ==
    IF \E n \in _TIMEOUT_KEYS : _TIMEOUT(n) > timeout
    THEN CHOOSE n \in _TIMEOUT_KEYS :
            /\ _TIMEOUT(n) > timeout
            /\ \A k \in _TIMEOUT_KEYS : _TIMEOUT(k) > timeout => n <= k
    ELSE 16

\* the least index whose duration is >= the timeout, 0x10 when there is none
timeout_index(timeout) ==
    IF \E n \in _TIMEOUT_KEYS : _TIMEOUT(n) >= timeout
    THEN CHOOSE n \in _TIMEOUT_KEYS :
            /\ _TIMEOUT(n) >= timeout
            /\ \A k \in _TIMEOUT_KEYS : _TIMEOUT(k) >= timeout => n <= k
    ELSE 16

Bool(b) == IF b THEN 1 ELSE 0

\* (mutant) the fields are OR-ed in without being masked out first
new_mode_or_only(mode, a) ==
    BitOr(BitOr(BitOr(mode, Shl(_BITRATE(a.bitrate), 4)), _FRAMING(a.type_)),
          Shl(Bool(a.crc), 7))

\* tx_mode and rx_mode: speed, framing, CRCEn
new_mode(mode, a) ==
    BitOr(BitAnd(BitOr(BitAnd(BitOr(BitAnd(mode, 143), Shl(_BITRATE(a.bitrate), 4)),
                              252),
                       _FRAMING(a.type_)),
                 127),
          Shl(Bool(a.crc), 7))

\* (mutant) Force100ASK is set for type A and never cleared
new_tx_auto_set_only(tx_auto, a) == BitOr(tx_auto, Shl(Bool(a.type_ = "A"), 6))

\* tx_auto: Force100ASK
new_tx_auto(tx_auto, a) == BitOr(BitAnd(tx_auto, 191), Shl(Bool(a.type_ = "A"), 6))

\* bit_frm: TxLastBits
new_bit_frm(bit_frm, a) == BitOr(BitAnd(bit_frm, 248), BitAnd(a.bits, 7))

MODE_REGISTERS == <<REG_TX_MODE, REG_RX_MODE, REG_TX_AUTO, REG_BIT_FRAMING>>

\* the dict handed to write_registers, from the four values read back
tr_registers(read, a) ==
    <<<<REG_TX_MODE, new_mode(read[1], a)>>,
      <<REG_RX_MODE, new_mode(read[2], a)>>,
      <<REG_TX_AUTO, new_tx_auto(read[3], a)>>,
      <<REG_BIT_FRAMING, new_bit_frm(read[4], a)>>>>
    \o _REGISTER_CONFIGURATION_FOR_TYPE(a.type_)

\* FeliCa: the length byte is prepended
tr_data(a) == IF a.type_ = "F" THEN <<Len(a.data) + 1>> \o a.data ELSE a.data

tr_result(rsp) ==
    IF rsp.tag = "Raise" THEN rsp
    ELSE IF rsp.tag = "None" THEN RetRaise(rsp.self, "TypeError")     \* None[0]
    ELSE IF rsp.val = <<>> THEN RetRaise(rsp.self, "IndexError")      \* rsp[0]
    ELSE IF rsp.val[1] # 0 THEN RetNone(rsp.self)
    ELSE RetBytes(rsp.self, Tail(rsp.val))

tr_after_write(r, a) ==
    IF r.tag = "Raise" THEN r
    ELSE tr_result(execute_command(r.self, IN_COMMUNICATE_THRU, tr_data(a)))

tr_after_read(r, a) ==
    IF r.tag = "Raise" THEN r
    ELSE IF Len(r.val) # 4 THEN RetRaise(r.self, "ValueError")        \* unpacking
    ELSE IF a.bitrate \notin {106, 212, 424, 848} \/ a.type_ \notin {"A", "B", "F"}
         THEN RetRaise(r.self, "KeyError")
    ELSE tr_after_write(
             write_registers(r.self, tr_registers(r.val, a), a.cache_configuration), a)

\* (mutant) the four registers are always read from the device
tr_after_rf_uncached(r, a) ==
    IF r.tag = "Raise" THEN r
    ELSE tr_after_read(read_registers(r.self, MODE_REGISTERS, FALSE), a)

tr_after_rf(r, a) ==
    IF r.tag = "Raise" THEN r
    ELSE tr_after_read(read_registers(r.self, MODE_REGISTERS, a.cache_configuration), a)

transceive_raw(s, a) ==
    tr_after_rf(rf_configuration(s, VARIOUS_TIMINGS, <<0, 11, timeout_index(a.timeout)>>,
                                 a.cache_configuration),
                a)

-----------------------------------------------------------------------------
(* Target discovery *)

BIT_FRAMING_FULL_BYTE == <<WRITE_REGISTER, 99, 61, 0>>

sb_result(rsp) ==
    IF rsp.tag = "Raise" THEN rsp
    ELSE IF Falsy(rsp) THEN RetRaise(rsp.self, "RuntimeError")
    ELSE RetNone(rsp.self)

sb_after_framing(r, payload) ==
    IF r.tag = "Raise" THEN r
    ELSE sb_result(send_frame(r.self, construct_frame(<<IN_COMMUNICATE_THRU>> \o payload)))

\* send_broadcast once with_crc16a(broadcast) is known
send_broadcast_crc(s, payload) ==
    sb_after_framing(send_frame(s, construct_frame(BIT_FRAMING_FULL_BYTE)), payload)

send_broadcast(s, broadcast) == send_broadcast_crc(s, with_crc16a(broadcast))

\* the tag objects of the tag module, as the arguments they are built from
RetTag(s, fields) == [self |-> s, tag |-> "Tag", val |-> fields, exc |-> ""]

\* rsp[0] of a list that may be empty
At0(rsp) == IF rsp = <<>> THEN -1 ELSE rsp[1]
\* the stop index of the slice rsp[0:b]: negative b counts from the end
SliceStop(rsp, b) == IF b < 0 THEN (IF Len(rsp) + b < 0 THEN 0 ELSE Len(rsp) + b)
                     ELSE Min(b, Len(rsp))
\* rsp[0:b] and what del rsp[0:b] leaves
Slice0(rsp, b) == SubSeq(rsp, 1, SliceStop(rsp, b))
Del0(rsp, b) == SubSeq(rsp, SliceStop(rsp, b) + 1, Len(rsp))

\* (mutant) as many answer-to-select bytes are kept as the length byte says
pa_ats_by_length(s, target_id, sense_res, sel_res, nfcid, rsp) ==
    IF rsp = <<>> THEN RetRaise(s, "IndexError")
    ELSE RetTag(s, [type |-> "A", target_id |-> target_id, sense_res |-> sense_res,
                    sel_res |-> sel_res, nfcid |-> nfcid,
                    ats |-> Slice0(Tail(rsp), rsp[1])])

pa_ats(s, target_id, sense_res, sel_res, nfcid, rsp) ==
    IF rsp = <<>> THEN RetRaise(s, "IndexError")                      \* ats_len = rsp[0]
    ELSE RetTag(s, [type |-> "A", target_id |-> target_id, sense_res |-> sense_res,
                    sel_res |-> sel_res, nfcid |-> nfcid,
                    ats |-> Slice0(Tail(rsp), rsp[1] - 1)])

pa_nfcid(s, target_id, sense_res, sel_res, rsp) ==
    IF rsp = <<>> THEN RetRaise(s, "IndexError")                      \* nfcid_len = rsp[0]
    ELSE pa_ats(s, target_id, sense_res, sel_res,
                Slice0(Tail(rsp), rsp[1]), Del0(Tail(rsp), rsp[1]))

pa_sel_res(s, target_id, sense_res, rsp) ==
    IF rsp = <<>> THEN RetRaise(s, "IndexError")                      \* sel_res = rsp[0]
    ELSE pa_nfcid(s, target_id, sense_res, rsp[1], Tail(rsp))

pa_target(s, rsp) ==
    IF rsp = <<>> THEN RetRaise(s, "IndexError")                      \* target_id = rsp[0]
    ELSE pa_sel_res(s, rsp[1], Slice0(Tail(rsp), 2), Del0(Tail(rsp), 2))

pa_num_targets(s, rsp) ==
    IF rsp = <<>> THEN RetRaise(s, "IndexError")                      \* num_targets = rsp[0]
    ELSE IF rsp[1] = 0 THEN RetNone(s)
    ELSE pa_target(s, Tail(rsp))

\* (mutant) no response to the passive activation is taken as no target
pa_rsp_tolerant(rsp) ==
    IF rsp.tag = "Raise" THEN rsp
    ELSE IF Falsy(rsp) THEN RetNone(rsp.self)
    ELSE pa_num_targets(IF rsp.val[1] # IN_LIST_PASSIVE_TARGET + 1
                        THEN log_error(rsp.self, "command code") ELSE rsp.self,
                        Tail(rsp.val))

pa_rsp(rsp) ==
    IF rsp.tag = "Raise" THEN rsp
    ELSE IF Falsy(rsp) THEN RetRaise(rsp.self, "RuntimeError")
    ELSE pa_num_targets(IF rsp.val[1] # IN_LIST_PASSIVE_TARGET + 1
                        THEN log_error(rsp.self, "command code") ELSE rsp.self,
                        Tail(rsp.val))

\* (mutant) the passive activation asks for two targets
poll_a_two_targets(s) ==
    pa_rsp(send_frame(s, construct_frame(<<IN_LIST_PASSIVE_TARGET, 2, 0>>)))

poll_a(s) == pa_rsp(send_frame(s, construct_frame(<<IN_LIST_PASSIVE_TARGET, 1, 0>>)))

deselect_command == 194
\* with_crc16a(bytearray(deselect_command)), the broadcast poll_b sends
DESELECT_BROADCAST == with_crc16a(bytearray(deselect_command))

pb_result(rsp) ==
    IF rsp.tag = "Raise" THEN rsp
    ELSE IF Falsy(rsp) THEN RetRaise(rsp.self, "RuntimeError")
    ELSE RetTag(rsp.self, [type |-> "B", target_id |-> 3, sensb_res |-> rsp.val])

pb_after_framing(r, afi) ==
    IF r.tag = "Raise" THEN r
    ELSE pb_result(send_frame(r.self, construct_frame(<<IN_COMMUNICATE_THRU>>
                                                      \o with_crc16a(<<5, afi, 8>>))))

pb_after_broadcast(r, afi) ==
    IF r.tag = "Raise" THEN r
    ELSE pb_after_framing(send_frame(r.self, construct_frame(BIT_FRAMING_FULL_BYTE)), afi)

\* (mutant) the broadcast deselect is left out
pb_afi_no_deselect(s, rsp) ==
    IF rsp = <<>> THEN RetRaise(s, "IndexError")
    ELSE pb_after_broadcast(RetNone(s), rsp[1])

pb_afi(s, rsp) ==
    IF rsp = <<>> THEN RetRaise(s, "IndexError")                      \* afi = rsp[0]
    ELSE pb_after_broadcast(send_broadcast_crc(s, DESELECT_BROADCAST), rsp[1])

pb_rsp(rsp) ==
    IF rsp.tag = "Raise" THEN rsp
    ELSE IF Falsy(rsp) THEN RetRaise(rsp.self, "RuntimeError")
    ELSE pb_afi(IF rsp.val[1] # IN_LIST_PASSIVE_TARGET + 1
                THEN log_error(rsp.self, "command code") ELSE rsp.self,
                Tail(rsp.val))

poll_b(s) == pb_rsp(send_frame(s, construct_frame(<<IN_LIST_PASSIVE_TARGET, 1, 3, 0>>)))

-----------------------------------------------------------------------------
(* General data exchange: transceive *)

\* (mutant) a response that echoes another command is dropped
tx_rsp_echo_strict(rsp) ==
    IF rsp.tag = "Raise" THEN rsp
    ELSE IF Falsy(rsp) THEN RetNone(rsp.self)
    ELSE IF rsp.val[1] # IN_DATA_EXCHANGE + 1
    THEN RetNone(log_error(rsp.self, "command code"))
    ELSE IF Len(rsp.val) < 2 THEN RetRaise(rsp.self, "IndexError")
    ELSE IF rsp.val[2] # 0 THEN RetNone(log_error(rsp.self, "exchange"))
    ELSE RetBytes(rsp.self, Tail(Tail(rsp.val)))

\* after `del rsp[0]`: the status byte, then the data
tx_status(s, rsp) ==
    IF rsp = <<>> THEN RetRaise(s, "IndexError")
    ELSE IF rsp[1] # 0 THEN RetNone(log_error(s, "exchange"))
    ELSE RetBytes(s, Tail(rsp))

tx_rsp(rsp) ==
    IF rsp.tag = "Raise" THEN rsp
    ELSE IF Falsy(rsp) THEN RetNone(rsp.self)
    ELSE tx_status(IF rsp.val[1] # IN_DATA_EXCHANGE + 1
                   THEN log_error(rsp.self, "command code")
                   ELSE rsp.self,
                   Tail(rsp.val))

transceive(s, data) ==
    tx_rsp(send_frame(s, construct_frame(<<IN_DATA_EXCHANGE>> \o data)))

-----------------------------------------------------------------------------
(* What a call did on the wire, read back from its serial log *)

IsCommandWrite(e) == e.op = "write" /\ e.data # ACK_FRAME

\* the device commands of a log, in the order they were written
Commands(log) ==
    LET w == SelectSeq(log, IsCommandWrite)
    IN  [i \in DOMAIN w |-> PayloadOf(w[i].data)]

\* the (address, value) items carried by a WRITE_REGISTER payload
RECURSIVE Triples(_)
Triples(bytes) ==
    IF Len(bytes) < 3 THEN <<>>
    ELSE <<<<bytes[1] * 256 + bytes[2], bytes[3]>>>> \o Triples(SubSeq(bytes, 4, Len(bytes)))

\* the addresses carried by a READ_REGISTER payload
RECURSIVE Pairs16(_)
Pairs16(bytes) ==
    IF Len(bytes) < 2 THEN <<>>
    ELSE <<bytes[1] * 256 + bytes[2]>> \o Pairs16(SubSeq(bytes, 3, Len(bytes)))

RECURSIVE RegsAfter(_, _)
RegsAfter(regs, cmds) ==
    IF cmds = <<>> THEN regs
    ELSE IF Head(cmds) # <<>> /\ Head(cmds)[1] = WRITE_REGISTER
         THEN RegsAfter(dict_merge(regs, Triples(Tail(Head(cmds)))), Tail(cmds))
         ELSE RegsAfter(regs, Tail(cmds))

-----------------------------------------------------------------------------
(* The driver object of the current state, and the completion of a call *)

Self(script) ==
    [register_cache |-> register_cache,
     rf_configuration_cache |-> rf_configuration_cache,
     rx |-> rx, inp |-> script, log |-> <<>>, errs |-> <<>>]

NoCall ==
    [op |-> "idle", args |-> <<>>, script |-> <<>>, pre_rc |-> <<>>, pre_rf |-> <<>>,
     log |-> <<>>, errs |-> <<>>, tag |-> "None", val |-> <<>>, exc |-> ""]

\* a call op(args) made while no call is in progress runs to its end r
Complete(op, args, script, r) ==
    /\ call = NoCall
    /\ Len(r.self.rx) <= MaxRx
    /\ register_cache' = r.self.register_cache
    /\ rf_configuration_cache' = r.self.rf_configuration_cache
    /\ rx' = r.self.rx
    /\ call' = [op |-> op, args |-> args, script |-> script,
                pre_rc |-> register_cache, pre_rf |-> rf_configuration_cache,
                log |-> r.self.log, errs |-> r.self.errs,
                tag |-> r.tag, val |-> r.val, exc |-> r.exc]

\* the caller takes the result (or the exception) of the completed call
Return ==
    /\ call # NoCall
    /\ call' = NoCall
    /\ UNCHANGED <<register_cache, rf_configuration_cache, rx, dev_regs, responsive, casimir_vars>>

\* the replies of its script that a completed call consumed
UsedReplies(c) == SubSeq(c.script, 1, Len(Commands(c.log)))

\* history of the device: the registers as the WRITE_REGISTER commands left them,
\* and whether every command was answered with a well-formed echoing response
Track ==
    /\ dev_regs' = RegsAfter(dev_regs, Commands(call'.log))
    /\ responsive' = (responsive /\ \A i \in DOMAIN UsedReplies(call') :
                                        UsedReplies(call')[i].k = "ok")
    /\ UNCHANGED casimir_vars

\* PN532.__init__: both caches start empty
Init ==
    /\ register_cache = <<>>
    /\ rf_configuration_cache = <<>>
    /\ rx = <<>>
    /\ dev_regs = <<>>
    /\ responsive = TRUE
    /\ call = NoCall
    /\ conn = "None"          \* Casimir.__init__
    /\ rf_on = FALSE
    /\ sent = <<>>
    /\ failed = FALSE

-----------------------------------------------------------------------------
(* Inputs *)

RECURSIVE SeqsUpTo(_, _)
SeqsUpTo(S, n) ==
    IF n = 0 THEN {<<>>}
    ELSE LET shorter == SeqsUpTo(S, n - 1)
         IN  shorter \cup {Append(q, x) : q \in {z \in shorter : Len(z) = n - 1}, x \in S}

RegsIn == {REG_TX_MODE, REG_BIT_FRAMING}
ValsIn == {0, 165}

\* dicts of at most MaxPairs registers, as items in insertion order
DictsIn ==
    {d \in SeqsUpTo(RegsIn \X ValsIn, MaxPairs) :
        \A i, j \in DOMAIN d : i # j => d[i][1] # d[j][1]}

AddrsIn == SeqsUpTo(RegsIn, MaxPairs)

\* replies that leave the link in step: silence, a lone ACK, a well-formed
\* response with the right or a wrong echoed command, an empty response
CleanKinds == {"silent", "ack_only", "ok", "bad_echo", "empty"}

Replies(kinds, datas) ==
    {[k |-> kk, data |-> d] : kk \in kinds \cap {"ok", "bad_echo"}, d \in datas}
    \cup {[k |-> kk, data |-> <<>>] : kk \in kinds \ {"ok", "bad_echo"}}

-----------------------------------------------------------------------------
(* Calls of the register access layer, the RF configuration manager and    *)
(* the command dispatcher                                                  *)

WriteRegisters ==
    \E registers \in DictsIn, cache \in BOOLEAN, reply \in Replies(CleanKinds, {<<>>}) :
        Complete("write_registers", [registers |-> registers, cache |-> cache],
                 <<reply>>, write_registers(Self(<<reply>>), registers, cache))

ReadRegisters ==
    \E registers \in AddrsIn, cache \in BOOLEAN :
        \E reply \in Replies(CleanKinds, [1..Len(registers) -> ValsIn]) :
            Complete("read_registers", [registers |-> registers, cache |-> cache],
                     <<reply>>, read_registers(Self(<<reply>>), registers, cache))

RfItemsIn == {<<RF_FIELD, <<2>>>>, <<RF_FIELD, <<3>>>>,
              <<VARIOUS_TIMINGS, <<0, 11, 1>>>>, <<VARIOUS_TIMINGS, <<0, 11, 16>>>>}

RfConfiguration ==
    \E iv \in RfItemsIn, cache \in BOOLEAN, reply \in Replies(CleanKinds, {<<>>}) :
        Complete("rf_configuration", [cfg_item |-> iv[1], value |-> iv[2], cache |-> cache],
                 <<reply>>, rf_configuration(Self(<<reply>>), iv[1], iv[2], cache))

CommandsIn == {<<READ_REGISTER, pack_H(REG_TX_MODE)>>, <<IN_COMMUNICATE_THRU, <<38>>>>}

ExecuteCommand ==
    \E cd \in CommandsIn, reply \in Replies(CleanKinds, {<<>>, <<0>>, <<0, 165>>}) :
        Complete("execute_command", [command |-> cd[1], data |-> cd[2]],
                 <<reply>>, execute_command(Self(<<reply>>), cd[1], cd[2]))

Next ==
    \/ WriteRegisters /\ UNCHANGED <<dev_regs, responsive, casimir_vars>>
    \/ ReadRegisters /\ UNCHANGED <<dev_regs, responsive, casimir_vars>>
    \/ RfConfiguration /\ UNCHANGED <<dev_regs, responsive, casimir_vars>>
    \/ ExecuteCommand /\ UNCHANGED <<dev_regs, responsive, casimir_vars>>
    \/ Return

Spec == Init /\ [][Next]_vars

-----------------------------------------------------------------------------
(* The driver as its callers use it: register access, raw exchange and     *)
(* target discovery against one device, whose registers are followed       *)

DriverKinds == {"ok", "silent"}

\* one reply per command a call may send
Scripts(n, datas) == [1..n -> Replies(DriverKinds, datas)]

TransceiveArgsIn ==
    [data : {<<38>>}, type_ : {"A", "B"}, crc : {TRUE}, bits : {7, 8}, bitrate : {106},
     timeout : {1000000}, cache_configuration : BOOLEAN]

TransceiveRaw ==
    \E a \in TransceiveArgsIn, script \in Scripts(4, {<<0, 165>>}) :
        Complete("transceive_raw", a, script, transceive_raw(Self(script), a))

SendBroadcast ==
    \E broadcast \in {<<38>>, <<194>>}, script \in Scripts(2, {<<0>>}) :
        Complete("send_broadcast", [broadcast |-> broadcast], script,
                 send_broadcast(Self(script), broadcast))

PollA ==
    \E script \in Scripts(1, {<<0>>, <<1, 1, 0, 4, 32, 1, 7, 2, 5, 128>>}) :
        Complete("poll_a", <<>>, script, poll_a(Self(script)))

PollB ==
    \E script \in Scripts(5, {<<1, 80>>}) :
        Complete("poll_b", <<>>, script, poll_b(Self(script)))

DriverWriteRegisters ==
    \E registers \in DictsIn, cache \in BOOLEAN, script \in Scripts(1, {<<>>}) :
        Complete("write_registers", [registers |-> registers, cache |-> cache],
                 script, write_registers(Self(script), registers, cache))

DriverReadRegisters ==
    \E registers \in AddrsIn, cache \in BOOLEAN, script \in Scripts(1, {<<165>>}) :
        Complete("read_registers", [registers |-> registers, cache |-> cache],
                 script, read_registers(Self(script), registers, cache))

DriverNext ==
    \/ DriverWriteRegisters /\ Track
    \/ DriverReadRegisters /\ Track
    \/ TransceiveRaw /\ Track
    \/ SendBroadcast /\ Track
    \/ PollA /\ Track
    \/ PollB /\ Track
    \/ Return

DriverSpec == Init /\ [][DriverNext]_vars

-----------------------------------------------------------------------------
(* The link transport on its own: frames sent to a device whose answers    *)
(* may be cut short or corrupted, with what is left in the input buffer    *)
(* carried to the next call                                                *)

LinkKinds ==
    CleanKinds \cup {"bad_ack", "bad_start", "bad_lcs", "bad_tfi", "bad_dcs", "bad_post",
                     "short_head", "no_dcs", "no_post"}

LinkReplies ==
    {[k |-> kk, data |-> d] : kk \in LinkKinds \ {"silent", "ack_only", "empty"},
                              d \in {<<>>, <<50>>}}
    \cup {[k |-> kk, data |-> <<>>] : kk \in {"silent", "ack_only", "empty"}}

FramesIn == {construct_frame(<<GET_FIRMWARE_VERSION>>),
             construct_frame(<<IN_DATA_EXCHANGE, 1>>)}

SendFrame ==
    \E frame \in FramesIn, reply \in LinkReplies :
        Complete("send_frame", [frame |-> frame], <<reply>>,
                 send_frame(Self(<<reply>>), frame))

\* a read of whatever the device has already put on the wire
GetDeviceResponse ==
    Complete("get_device_response", <<>>, <<>>, get_device_response(Self(<<>>)))

\* reset_buffers: the input buffer is emptied
ResetBuffers ==
    /\ call = NoCall
    /\ rx # <<>>
    /\ rx' = <<>>
    /\ UNCHANGED <<register_cache, rf_configuration_cache, dev_regs, responsive, call,
                 casimir_vars>>

LinkNext ==
    \/ SendFrame /\ UNCHANGED <<dev_regs, responsive, casimir_vars>>
    \/ GetDeviceResponse /\ UNCHANGED <<dev_regs, responsive, casimir_vars>>
    \/ ResetBuffers
    \/ Return

LinkSpec == Init /\ [][LinkNext]_vars

-----------------------------------------------------------------------------
(* The codec and the modulation arithmetic on their own: each call is made *)
(* on a driver as __init__ leaves it, and only its outcome is kept         *)

\* PN532.__init__: a driver with empty caches and nothing on the line
Fresh(script) ==
    [register_cache |-> <<>>, rf_configuration_cache |-> <<>>,
     rx |-> <<>>, inp |-> script, log |-> <<>>, errs |-> <<>>]

\* a call op(args) on a fresh driver ran to its end r
Outcome(op, args, script, r) ==
    /\ call = NoCall
    /\ call' = [op |-> op, args |-> args, script |-> script,
                pre_rc |-> <<>>, pre_rf |-> <<>>,
                log |-> r.self.log, errs |-> r.self.errs,
                tag |-> r.tag, val |-> r.val, exc |-> r.exc]
    /\ UNCHANGED <<register_cache, rf_configuration_cache, rx, dev_regs, responsive, casimir_vars>>

\* longest short payload that is enumerated byte by byte
MaxShort == 3
\* the lengths of the long payloads
LongLens == {250, 254, 255}

BytesIn == {0, 1, 212, 255}

\* payloads: every short one over BytesIn, and long ones of a repeated byte or
\* of ascending bytes
PayloadsIn ==
    SeqsUpTo(BytesIn, MaxShort)
    \cup {[i \in 1..n |-> 165] : n \in LongLens}
    \cup {[i \in 1..n |-> i % 256] : n \in LongLens}

ConstructFrame ==
    /\ call = NoCall
    /\ \E data \in PayloadsIn :
           Outcome("construct_frame", [data |-> data], <<>>,
                   RetBytes(Fresh(<<>>), construct_frame(data)))

\* the frames put on the line for the parser: the frame construct_frame builds,
\* the same with the device's frame identifier in place of the host's, and the
\* frame the device builds
FedFrame(data, fed) ==
    CASE fed = "host"   -> construct_frame(data)
      [] fed = "marked" -> SetAt(construct_frame(data), 6, TFI_DEVICE)
      [] fed = "device" -> response_frame(data)

ParseFrame ==
    /\ call = NoCall
    /\ \E data \in PayloadsIn, fed \in {"host", "marked", "device"} :
           Outcome("parse_frame", [data |-> data, fed |-> fed], <<>>,
                   get_device_response([Fresh(<<>>) EXCEPT
                                           !.rx = ACK_FRAME \o FedFrame(data, fed)]))

\* requested timeouts in microseconds: around every table entry, none, negative,
\* and beyond the table
TimeoutsIn ==
    {-1, 0, 50, 5000000}
    \cup {100 * Pow2(n - 1) + d : n \in 1..16, d \in {-1, 0, 1}}

\* read-back values of TX_MODE, RX_MODE, TX_AUTO, BIT_FRAMING
ReadBacksIn == {<<v>> : v \in 0..255} \cup [1..4 -> {0, 165, 255}]

UnitArgsIn ==
    [data : {<<38>>}, type_ : {"A"}, crc : {TRUE}, bits : {8}, bitrate : {106},
     timeout : TimeoutsIn, cache_configuration : BOOLEAN]
    \cup
    [data : {<<38>>}, type_ : {"A", "B", "F"}, crc : BOOLEAN, bits : {0, 7, 8},
     bitrate : {106, 212, 424, 848}, timeout : {1000000}, cache_configuration : {FALSE}]

OkScript(n, data) == [i \in 1..n |-> [k |-> "ok", data |-> data]]

TransceiveRawFresh ==
    /\ call = NoCall
    /\ \E a \in UnitArgsIn, readback \in ReadBacksIn :
           /\ a.timeout # 1000000 => readback = <<0>>
           /\ Outcome("transceive_raw", a, OkScript(4, readback),
                      transceive_raw(Fresh(OkScript(4, readback)), a))

ModeArgsIn ==
    [type_ : {"A", "DEP", "F", "B"}, crc : BOOLEAN, bitrate : {106, 212, 424, 848}]

\* the three masked updates of tx_mode (rx_mode) by themselves
NewMode ==
    /\ call = NoCall
    /\ \E mode \in 0..255, a \in ModeArgsIn :
           Outcome("new_mode", [mode |-> mode, a |-> a], <<>>,
                   RetBytes(Fresh(<<>>), <<new_mode(mode, a)>>))

UnitNext ==
    \/ ConstructFrame
    \/ ParseFrame
    \/ TransceiveRawFresh
    \/ NewMode
    \/ Return

UnitSpec == Init /\ [][UnitNext]_vars

-----------------------------------------------------------------------------
(* Scenarios: single calls on a new driver, answered by a scripted device  *)

\* what follows the echoed command in answers to the passive activation: one
\* target with its fields, with or without bytes after them, and answers that
\* report no target or end early
TargetResponsesIn ==
    {<<1, tid>> \o sense \o <<sel, Len(id)>> \o id \o ats \o rest :
        tid \in {1, 2}, sense \in {<<0, 4>>, <<68, 3>>}, sel \in {32, 8},
        id \in {<<>>, <<7>>, <<1, 2, 3, 4>>, <<4, 1, 2, 3, 4, 5, 6>>},
        ats \in {<<1>>, <<2, 117>>, <<3, 120, 128>>},
        rest \in {<<>>, <<9>>}}
    \cup {<<0>>, <<1>>, <<1, 1>>, <<1, 1, 0, 4>>, <<1, 1, 0, 4, 8, 4, 1, 2>>,
          <<1, 1, 0, 4, 8, 4, 1, 2, 3, 4>>}

PollAFresh ==
    /\ call = NoCall
    /\ \E rsp \in TargetResponsesIn :
           Outcome("poll_a", <<>>, OkScript(1, rsp), poll_a(Fresh(OkScript(1, rsp))))

\* answers to the firmware check: nothing, a lone ACK, and whole payloads
FirmwareRepliesIn ==
    {[k |-> "silent", data |-> <<>>], [k |-> "ack_only", data |-> <<>>]}
    \cup {[k |-> "raw", data |-> d] :
            d \in {<<3, 50, 1, 6, 7>>, <<2, 50, 1, 6, 7>>, <<3, 51, 1, 6, 7>>,
                   <<3, 50, 1, 6>>, <<3, 50, 1, 6, 7, 0>>, <<3>>, <<>>}}

VerifyFirmwareVersion ==
    /\ call = NoCall
    /\ \E reply \in FirmwareRepliesIn :
           Outcome("verify_firmware_version", <<>>, <<reply>>,
                   verify_firmware_version(Fresh(<<reply>>)))

\* answers to the two configuration commands of the constructor
ConfigRepliesIn == Replies({"ok", "silent", "ack_only", "empty"}, {<<>>})

\* a driver object is constructed; its fields become the state
Construct ==
    /\ call = NoCall
    /\ \E ports \in {0, 1}, noise \in {<<>>, <<0, 0>>},
          fw \in FirmwareRepliesIn, sam \in ConfigRepliesIn, rf \in ConfigRepliesIn :
           Complete("__init__", [ports |-> ports, noise |-> noise], <<fw, sam, rf>>,
                    __init__(ports, noise, <<fw, sam, rf>>))
    /\ UNCHANGED <<dev_regs, responsive, casimir_vars>>

\* the session in use: a cached register write on the current object
SessionWriteRegisters ==
    /\ call = NoCall
    /\ \E v \in ValsIn :
           Complete("write_registers",
                    [registers |-> <<<<REG_TX_MODE, v>>>>, cache |-> TRUE],
                    <<[k |-> "ok", data |-> <<>>]>>,
                    write_registers(Self(<<[k |-> "ok", data |-> <<>>]>>),
                                    <<<<REG_TX_MODE, v>>>>, TRUE))
    /\ UNCHANGED <<dev_regs, responsive, casimir_vars>>

\* answers to IN_DATA_EXCHANGE: none, broken ones, whole payloads
ExchangeRepliesIn ==
    Replies({"silent", "ack_only", "empty", "bad_dcs", "bad_tfi"}, {<<>>})
    \cup {[k |-> "raw", data |-> d] :
            d \in {<<65>>, <<65, 0>>, <<65, 0, 144, 0>>, <<65, 0, 0>>, <<65, 1>>,
                   <<65, 1, 9>>, <<67, 0, 7>>, <<67, 2>>, <<0>>, <<0, 0, 5>>}}

Transceive ==
    /\ call = NoCall
    /\ \E data \in {<<>>, <<1>>, <<1, 0, 164>>}, reply \in ExchangeRepliesIn :
           Outcome("transceive", data, <<reply>>, transceive(Fresh(<<reply>>), data))

ScenarioNext ==
    \/ Transceive
    \/ PollAFresh
    \/ VerifyFirmwareVersion
    \/ Construct
    \/ SessionWriteRegisters
    \/ Return

ScenarioSpec == Init /\ [][ScenarioNext]_vars

-----------------------------------------------------------------------------
(* Polling frame ordering (polling_frame_utils.py); a frame is a record    *)
(* [type, timestamp], an optional timestamp is <<>> (None) or <<t>>        *)

EXPEDITED_POLLING_LOOP_EVENT_TYPES == {"F", "U"}

\* the loop of get_expedited_frames from frame i on
RECURSIVE gef_loop(_, _, _)
gef_loop(frames, i, expedited_frames) ==
    IF i > Len(frames) THEN expedited_frames
    ELSE IF frames[i].type \notin EXPEDITED_POLLING_LOOP_EVENT_TYPES THEN expedited_frames
    ELSE gef_loop(frames, i + 1, Append(expedited_frames, frames[i]))

get_expedited_frames(frames) == gef_loop(frames, 1, <<>>)

\* the loop of split_frames_by_timestamp_wrap from frame i on
RECURSIVE sfw_loop(_, _, _, _)
sfw_loop(frames, i, pivot_timestamp, not_wrapped) ==
    IF i > Len(frames) THEN not_wrapped
    ELSE IF frames[i].timestamp < pivot_timestamp THEN not_wrapped
    ELSE sfw_loop(frames, i + 1, pivot_timestamp, Append(not_wrapped, frames[i]))

sfw_split(frames, not_wrapped) ==
    <<not_wrapped, SubSeq(frames, Len(not_wrapped) + 1, Len(frames))>>

\* (mutant) the pivot given by the caller is not used
split_frames_by_own_first(frames, pivot_timestamp) ==
    IF frames = <<>> THEN <<<<>>, <<>>>>
    ELSE sfw_split(frames, sfw_loop(frames, 1, frames[1].timestamp, <<>>))

\* pivot_timestamp or frames[0].timestamp: None and 0 both give way
split_frames_by_timestamp_wrap(frames, pivot_timestamp) ==
    IF frames = <<>> THEN <<<<>>, <<>>>>
    ELSE sfw_split(frames,
                   sfw_loop(frames, 1,
                            IF pivot_timestamp = <<>> \/ pivot_timestamp[1] = 0
                            THEN frames[1].timestamp
                            ELSE pivot_timestamp[1],
                            <<>>))

\* the loop of apply_expedited_frame_ordering from frame i on
RECURSIVE aef_loop(_, _, _, _, _)
aef_loop(frames, i, limit, leave, expedite) ==
    IF i > Len(frames) THEN expedite \o leave
    ELSE IF frames[i].type \in EXPEDITED_POLLING_LOOP_EVENT_TYPES /\ Len(expedite) < limit
    THEN aef_loop(frames, i + 1, limit, leave, Append(expedite, frames[i]))
    ELSE aef_loop(frames, i + 1, limit, Append(leave, frames[i]), expedite)

apply_expedited_frame_ordering(frames, limit) == aef_loop(frames, 1, limit, <<>>, <<>>)

\* sorted(frames, key=lambda f: f.timestamp): stable, by insertion
RECURSIVE sorted_insert(_, _)
sorted_insert(done, f) ==
    IF done = <<>> THEN <<f>>
    ELSE IF done[Len(done)].timestamp <= f.timestamp THEN Append(done, f)
    ELSE Append(sorted_insert(SubSeq(done, 1, Len(done) - 1), f), done[Len(done)])

RECURSIVE sorted_from(_, _, _)
sorted_from(frames, i, done) ==
    IF i > Len(frames) THEN done
    ELSE sorted_from(frames, i + 1, sorted_insert(done, frames[i]))

sorted_by_timestamp(frames) == sorted_from(frames, 1, <<>>)

aof_result(original, expedited) ==
    sorted_by_timestamp(original[1] \o expedited[1])
    \o sorted_by_timestamp(original[2] \o expedited[2])

aof_expedited(expedited_frames, original) ==
    aof_result(original,
               split_frames_by_timestamp_wrap(
                   expedited_frames,
                   IF Len(original[1]) > 0 THEN <<original[1][1].timestamp>> ELSE <<>>))

aof_original(frames, expedited_frames) ==
    IF Len(expedited_frames) = 0 THEN frames
    ELSE aof_expedited(expedited_frames,
                       split_frames_by_timestamp_wrap(
                           SubSeq(frames, Len(expedited_frames) + 1, Len(frames)), <<>>))

apply_original_frame_ordering(frames) ==
    IF Len(frames) = 0 THEN <<>>
    ELSE aof_original(frames, get_expedited_frames(frames))

-----------------------------------------------------------------------------
(* The functions that take no driver: the checksum codec of pn532.py and   *)
(* casimir.py, the frame ordering of polling_frame_utils.py                *)

\* longest checksummed sequence that is enumerated over CrcBytes
MaxCrcLen == 3
CrcBytes == {0, 1, 18, 52, 194, 255}

\* every single byte, short sequences, the frames the driver checksums
CrcDataIn ==
    SeqsUpTo(0..255, 1)
    \cup SeqsUpTo(CrcBytes, MaxCrcLen)
    \cup {bytearray(deselect_command), <<5, 0, 8>>, <<38>>, <<147, 32>>,
          <<80, 1, 2, 3, 4, 5, 6, 7, 8, 9, 10, 11>>}

Crc16a ==
    /\ call = NoCall
    /\ \E data \in CrcDataIn :
           Outcome("crc16a", data, <<>>,
                   [self |-> Fresh(<<>>), tag |-> "Bytes", exc |-> "",
                    val |-> [crc |-> crc16a(data),
                             with |-> with_crc16a(data),
                             registers |-> crc16a_registers(data),
                             casimir_crc |-> casimir_crc16a(data),
                             casimir_with |-> casimir_with_crc16a(data)]])

\* longest list of polling frames
MaxFrames == 4
FrameTypesIn == {"A", "B", "F", "U"}
\* timestamp of the first frame: 0, one that leaves room for no wrapped frame
\* but one, one that leaves room for all
FirstStampsIn == {0, 1, MaxFrames}

\* n frames whose timestamps count up from first, the last w of them after a
\* wrap and counting up from 0
Stamped(types, first, w) ==
    [i \in DOMAIN types |->
        [type |-> types[i],
         timestamp |-> IF i <= Len(types) - w THEN first + i - 1
                       ELSE i - (Len(types) - w) - 1]]

FrameListsIn ==
    {Stamped(types, first, w) :
        types \in SeqsUpTo(FrameTypesIn, MaxFrames), first \in FirstStampsIn,
        w \in 0..(MaxFrames - 1)}

\* frames are expedited up to a limit, and the original order is restored
OrderFrames ==
    /\ call = NoCall
    /\ \E frames \in FrameListsIn :
           \E limit \in 0..Len(frames) :
               Outcome("apply_original_frame_ordering",
                       [frames |-> frames, limit |-> limit], <<>>,
                       [self |-> Fresh(<<>>), tag |-> "Frames", exc |-> "",
                        val |-> [expedited |-> apply_expedited_frame_ordering(frames, limit),
                                 restored |-> apply_original_frame_ordering(
                                     apply_expedited_frame_ordering(frames, limit))]])

\* lists to split, and the pivots given with them: none, 0, and around the
\* timestamps of the lists
SplitListsIn ==
    {Stamped(types, first, w) :
        types \in SeqsUpTo({"A", "F"}, MaxFrames), first \in FirstStampsIn,
        w \in 0..(MaxFrames - 1)}

PivotsIn == {<<>>} \cup {<<t>> : t \in 0..(MaxFrames + 1)}

SplitFrames ==
    /\ call = NoCall
    /\ \E frames \in SplitListsIn, pivot_timestamp \in PivotsIn :
           Outcome("split_frames_by_timestamp_wrap",
                   [frames |-> frames, pivot_timestamp |-> pivot_timestamp], <<>>,
                   [self |-> Fresh(<<>>), tag |-> "Frames", exc |-> "",
                    val |-> split_frames_by_timestamp_wrap(frames, pivot_timestamp)])

FunctionNext ==
    \/ SplitFrames
    \/ OrderFrames
    \/ Crc16a
    \/ Return

FunctionSpec == Init /\ [][FunctionNext]_vars

-----------------------------------------------------------------------------
(* The alternate backend (casimir.py).  A Casimir object is a record        *)
(* [conn, rf_on, inp, sent]: inp holds what happens to the requests to      *)
(* come, "ok", "rpc_error" (the service answers with an rpc error) or       *)
(* "refused" (conn.request raises), sent the requests that went out         *)

CasimirResult(c, tag) == [self |-> c, tag |-> tag]

\* conn.request ... json.loads of send_command, for one request
casimir_request(c, command, data) ==
    IF Head(c.inp) = "refused"
    THEN CasimirResult([c EXCEPT !.inp = Tail(@)], "Raise")
    ELSE CasimirResult([c EXCEPT !.inp = Tail(@),
                                 !.sent = Append(@, [command |-> command, data |-> data])],
                       IF Head(c.inp) = "rpc_error" THEN "None" ELSE "Obj")

\* after send_command("Init", {}) of ensure_connected
ec_init(r) ==
    IF r.tag = "Raise" THEN r
    ELSE CasimirResult([r.self EXCEPT !.rf_on = FALSE], "None")

\* a new connection starts a new history of requests
ensure_connected(c) ==
    IF c.conn = "None"
    THEN ec_init(casimir_request([c EXCEPT !.conn = "open", !.sent = <<>>], "Init", ""))
    ELSE CasimirResult(c, "None")

sc_connected(r, command, data) ==
    IF r.tag = "Raise" THEN r ELSE casimir_request(r.self, command, data)

send_command(c, command, data) == sc_connected(ensure_connected(c), command, data)

casimir_discard(r) == IF r.tag = "Raise" THEN r ELSE CasimirResult(r.self, "None")

\* (mutant) the radio is switched on whatever the flag says
um_connected_always(r) ==
    IF r.tag = "Raise" THEN r
    ELSE casimir_discard(send_command([r.self EXCEPT !.rf_on = TRUE], "SetRadioState", "on"))

um_connected(r) ==
    IF r.tag = "Raise" THEN r
    ELSE IF ~r.self.rf_on
    THEN casimir_discard(send_command([r.self EXCEPT !.rf_on = TRUE], "SetRadioState", "on"))
    ELSE CasimirResult(r.self, "None")

unmute(c) == um_connected(ensure_connected(c))

mute_closed(r) ==
    IF r.tag = "Raise" THEN r
    ELSE CasimirResult([r.self EXCEPT !.conn = "None"], "None")

mute_close(r) ==
    IF r.tag = "Raise" THEN r
    ELSE mute_closed(send_command(r.self, "Close", ""))

mute(c) ==
    IF c.conn # "None"
    THEN IF c.rf_on
         THEN mute_close(send_command([c EXCEPT !.rf_on = FALSE], "SetRadioState", "off"))
         ELSE mute_close(CasimirResult(c, "None"))
    ELSE CasimirResult([c EXCEPT !.rf_on = FALSE], "None")

tm_sent(r) ==
    IF r.tag = "Raise" THEN r
    ELSE IF r.tag = "None" THEN CasimirResult(r.self, "Empty")
    ELSE CasimirResult(r.self, "Apdus")

tm_unmuted(r) ==
    IF r.tag = "Raise" THEN r
    ELSE tm_sent(send_command(r.self, "SendApdu", "apdus"))

transceive_multiple(c) == tm_unmuted(unmute(c))

casimir_poll_a_rsp(r) ==
    IF r.tag = "Raise" THEN r
    ELSE IF r.tag = "None" THEN r
    ELSE CasimirResult(r.self, "Tag")

casimir_poll_a(c) == casimir_poll_a_rsp(send_command(c, "PollA", ""))

\* most requests kept in the history of one connection
MaxSent == 6

\* what happens to the requests of one operation, at most three
CasimirScripts == [1..3 -> {"ok", "rpc_error", "refused"}]

CasimirSelf(script) == [conn |-> conn, rf_on |-> rf_on, inp |-> script, sent |-> sent]

\* an operation of the Casimir object ran to its end r
CasimirDone(r) ==
    /\ Len(r.self.sent) <= MaxSent
    /\ conn' = r.self.conn
    /\ rf_on' = r.self.rf_on
    /\ sent' = r.self.sent
    /\ failed' = (failed \/ r.tag = "Raise")
    /\ UNCHANGED pn532_vars

CasimirPollA == \E script \in CasimirScripts : CasimirDone(casimir_poll_a(CasimirSelf(script)))

CasimirTransceiveMultiple ==
    \E script \in CasimirScripts : CasimirDone(transceive_multiple(CasimirSelf(script)))

CasimirUnmute == \E script \in CasimirScripts : CasimirDone(unmute(CasimirSelf(script)))

CasimirMute == \E script \in CasimirScripts : CasimirDone(mute(CasimirSelf(script)))

CasimirNext ==
    \/ CasimirPollA
    \/ CasimirTransceiveMultiple
    \/ CasimirUnmute
    \/ CasimirMute

CasimirSpec == Init /\ [][CasimirNext]_vars

-----------------------------------------------------------------------------
(* Reading a completed call *)

IsCall(op) == call # NoCall /\ call.op = op

\* the device commands the completed call wrote
CallCmds == Commands(call.log)

\* the reply the device gave to the i-th command of the completed call
ReplyTo(i) == call.script[i]

\* the link transport returned no frame for a reply of this kind
NoFrame(reply) == reply.k \in {"silent", "ack_only"}

\* the items of a dict whose value the cache does not hold
Stale(cache, items) ==
    SelectSeq(items, LAMBDA p : p[1] \notin DOMAIN cache \/ cache[p[1]] # p[2])

\* the WRITE_REGISTER command that carries the given items, in their order
WriteCommand(items) ==
    <<WRITE_REGISTER>>
    \o Concat([i \in DOMAIN items |->
                  <<items[i][1] \div 256, items[i][1] % 256, items[i][2]>>])

\* the READ_REGISTER command for the given addresses: big-endian, in their order
ReadCommand(addrs) ==
    <<READ_REGISTER>>
    \o Concat([i \in DOMAIN addrs |-> <<addrs[i] \div 256, addrs[i] % 256>>])

\* the commands a write_registers(registers, cache) would issue in the current
\* state, whatever the device then answers
AgainCmds(registers, cache, reply) ==
    Commands(write_registers(Self(<<reply>>), registers, cache).self.log)

OneReplies == Replies(CleanKinds, {<<>>})

-----------------------------------------------------------------------------
(* C1 *)

\* C1 as stated: with cache=True the WRITE_REGISTER command carries exactly the
\* items that differ from the cache and nothing is sent when there are none; with
\* cache=False every call sends one WRITE_REGISTER with every item; two
\* cache=True calls in a row send one command in all, two cache=False calls two.
C1_Elision_AsStated ==
    IsCall("write_registers") =>
        LET R == call.args.registers
            stale == Stale(call.pre_rc, R)
        IN  /\ call.args.cache /\ stale # <<>> => CallCmds = <<WriteCommand(stale)>>
            /\ call.args.cache /\ stale = <<>> => CallCmds = <<>>
            /\ ~call.args.cache => CallCmds = <<WriteCommand(R)>>
            /\ \A reply \in OneReplies :
                  Len(CallCmds) + Len(AgainCmds(R, call.args.cache, reply))
                      = IF call.args.cache THEN 1 ELSE 2

\* C1 (amended): with cache=True the WRITE_REGISTER command carries exactly the
\* items that differ from the cache, in the mapping's order, and nothing is sent
\* when there are none; with cache=False every call with a non-empty mapping sends
\* one WRITE_REGISTER with every item, and an empty mapping sends nothing.  After
\* a cache=True call that returned normally, the same call again sends nothing,
\* so the two send one command in all exactly when an item differed at first;
\* two cache=False calls with a non-empty mapping send two.
C1_Elision ==
    IsCall("write_registers") =>
        LET R == call.args.registers
            stale == Stale(call.pre_rc, R)
        IN  /\ call.args.cache /\ stale # <<>> => CallCmds = <<WriteCommand(stale)>>
            /\ call.args.cache /\ stale = <<>> => CallCmds = <<>>
            /\ ~call.args.cache /\ R # <<>> => CallCmds = <<WriteCommand(R)>>
            /\ ~call.args.cache /\ R = <<>> => CallCmds = <<>>
            /\ \A reply \in OneReplies :
                  /\ call.args.cache /\ call.tag # "Raise" =>
                        /\ AgainCmds(R, TRUE, reply) = <<>>
                        /\ Len(CallCmds) = IF stale # <<>> THEN 1 ELSE 0
                  /\ ~call.args.cache /\ R # <<>> =>
                        Len(CallCmds) + Len(AgainCmds(R, FALSE, reply)) = 2

\* a cache=True call of two items of which only the second differed from the cache
C1_Witness ==
    /\ IsCall("write_registers")
    /\ call.args.cache
    /\ Len(call.args.registers) = 2
    /\ call.args.registers[1][1] \in DOMAIN call.pre_rc
    /\ call.pre_rc[call.args.registers[1][1]] = call.args.registers[1][2]
    /\ CallCmds = <<WriteCommand(<<call.args.registers[2]>>)>>
    /\ call.tag = "None"

-----------------------------------------------------------------------------
(* C2 *)

\* C2: on a responsive device, after any sequence of write_registers,
\* read_registers, transceive_raw, send_broadcast, poll_a and poll_b, every entry
\* of the register cache equals the value the driver last wrote to that register
\* on the device.
C2_CacheCoherent ==
    responsive =>
        \A r \in DOMAIN register_cache :
            r \in DOMAIN dev_regs /\ register_cache[r] = dev_regs[r]

\* the registers a completed write_registers call did send to the device
WrittenBy(c) == DOMAIN RegsAfter(<<>>, Commands(c.log))

\* C2, the case it names: on a responsive device a write_registers with cache=True
\* leaves out a register only when the device holds the value asked for.
C2_NoStaleElision ==
    IsCall("write_registers") /\ call.args.cache /\ responsive =>
        \A i \in DOMAIN call.args.registers :
            call.args.registers[i][1] \notin WrittenBy(call) =>
                /\ call.args.registers[i][1] \in DOMAIN dev_regs
                /\ dev_regs[call.args.registers[i][1]] = call.args.registers[i][2]

-----------------------------------------------------------------------------
(* C3 *)

\* C3: after a write_registers call that sent its command and did not fail, the
\* register cache maps every address of the input mapping to the mapping's value
\* (all of them, also with cache=False) and keeps every other entry as it was.
C3_CacheAfterWrite ==
    IsCall("write_registers") /\ Len(CallCmds) = 1 /\ call.tag # "Raise" =>
        LET R == call.args.registers
        IN  /\ DOMAIN register_cache = (DOMAIN call.pre_rc) \cup Keys(R)
            /\ \A i \in DOMAIN R : register_cache[R[i][1]] = R[i][2]
            /\ \A a \in (DOMAIN call.pre_rc) \ Keys(R) : register_cache[a] = call.pre_rc[a]

\* a cache=True write of two items, one of them elided and the other new to the
\* cache, while the cache held nothing else: both are cached afterwards
C3_Witness ==
    /\ IsCall("write_registers")
    /\ call.args.cache
    /\ call.script[1].k = "ok"
    /\ Len(call.args.registers) = 2
    /\ Len(Triples(Tail(CallCmds[1]))) = 1
    /\ DOMAIN call.pre_rc # DOMAIN register_cache
    /\ \E a \in DOMAIN call.pre_rc : a \in Keys(call.args.registers)

-----------------------------------------------------------------------------
(* C4 *)

\* every requested address is in the cache the call started with
AllCached(c) == \A i \in DOMAIN c.args.registers : c.args.registers[i] \in DOMAIN c.pre_rc

\* C4: read_registers with cache=True and every address cached returns the cached
\* values in request order and sends nothing; otherwise it sends exactly one
\* READ_REGISTER with all the addresses, big-endian and in request order, and
\* fails when the device gives no response.
C4_ReadRegisters ==
    IsCall("read_registers") =>
        LET regs == call.args.registers
        IN  IF call.args.cache /\ AllCached(call)
            THEN /\ CallCmds = <<>>
                 /\ call.tag = "Bytes"
                 /\ call.val = [i \in DOMAIN regs |-> call.pre_rc[regs[i]]]
            ELSE /\ CallCmds = <<ReadCommand(regs)>>
                 /\ NoFrame(ReplyTo(1)) => call.tag = "Raise"

\* a cache=True read of two addresses of which only the first was cached: one
\* READ_REGISTER for both, answered by the device
C4_Witness ==
    /\ IsCall("read_registers")
    /\ call.args.cache
    /\ Len(call.args.registers) = 2
    /\ call.args.registers[1] \in DOMAIN call.pre_rc
    /\ call.args.registers[2] \notin DOMAIN call.pre_rc
    /\ Len(CallCmds) = 1
    /\ call.tag = "Bytes"

-----------------------------------------------------------------------------
(* C5 *)

\* a read_registers(registers, cache=True) made now would send nothing
ReadAgainSilent(registers) ==
    \A reply \in Replies(CleanKinds, {<<>>}) :
        Commands(read_registers(Self(<<reply>>), registers, TRUE).self.log) = <<>>

\* C5: after a read_registers call that got its values from the device, the
\* register cache maps each requested address to the value read, and the same
\* read with cache=True sends nothing.
C5_ReadFillsCache ==
    /\ IsCall("read_registers")
    /\ call.tag = "Bytes"
    /\ Len(CallCmds) = 1
    /\ Len(call.val) = Len(call.args.registers)
    => /\ \A i \in DOMAIN call.args.registers :
              /\ call.args.registers[i] \in DOMAIN register_cache
              /\ \E j \in DOMAIN call.args.registers :
                    /\ call.args.registers[j] = call.args.registers[i]
                    /\ register_cache[call.args.registers[i]] = call.val[j]
       /\ ReadAgainSilent(call.args.registers)

-----------------------------------------------------------------------------
(* C6 *)

\* the cache already holds exactly this value sequence for the item
RfCached(c) ==
    /\ c.args.cfg_item \in DOMAIN c.pre_rf
    /\ c.pre_rf[c.args.cfg_item] = c.args.value

RfCommand(c) == <<RF_CONFIGURATION, c.args.cfg_item>> \o c.args.value

-----------------------------------------------------------------------------
(* C7 *)

\* C7 as stated: execute_command raises whenever the link transport returns no
\* frame for the command; it never returns normally then.
C7_NoFrameRaises_AsStated ==
    IsCall("execute_command") /\ NoFrame(ReplyTo(1)) => call.tag = "Raise"

\* C7 (amended): whenever the link transport returns no frame for the command,
\* execute_command returns the absent result (None) after its one command and
\* raises nothing; failing on the missing response is left to its caller.
C7_NoFrameReturnsNone ==
    IsCall("execute_command") /\ NoFrame(ReplyTo(1)) =>
        /\ call.tag = "None"
        /\ CallCmds = <<<<call.args.command>> \o call.args.data>>

\* an execute_command that the device met with silence
C7_Witness ==
    /\ IsCall("execute_command")
    /\ ReplyTo(1).k = "silent"
    /\ Len(CallCmds) = 1
    /\ call.tag = "None"

-----------------------------------------------------------------------------
(* C8 *)

\* the link transport returned a frame to the completed call's last command:
\* its log ends with the payload, checksum and postamble reads and the host ACK
FrameReturned(c) ==
    /\ Len(c.log) >= 7
    /\ c.log[Len(c.log)] = [op |-> "write", n |-> 6, data |-> ACK_FRAME]
    /\ c.log[Len(c.log) - 3].op = "read"

\* the payload of that frame
ReturnedPayload(c) == c.log[Len(c.log) - 3].data

\* C8: when a response frame comes back, execute_command raises if its first
\* byte is not command+1, and otherwise returns the response without that byte.
C8_EchoChecked ==
    IsCall("execute_command") /\ FrameReturned(call) /\ ReturnedPayload(call) # <<>> =>
        IF ReturnedPayload(call)[1] # call.args.command + 1
        THEN call.tag = "Raise" /\ call.exc = "RuntimeError"
        ELSE call.tag = "Bytes" /\ call.val = Tail(ReturnedPayload(call))

\* an execute_command answered with the right echo and two more bytes
C8_Witness ==
    /\ IsCall("execute_command")
    /\ FrameReturned(call)
    /\ Len(ReturnedPayload(call)) = 3
    /\ ReturnedPayload(call)[1] = call.args.command + 1
    /\ call.tag = "Bytes"
    /\ Len(call.val) = 2

-----------------------------------------------------------------------------
(* C9 *)

\* C9: when the device gives no response to the WRITE_REGISTER of write_registers
\* or to the RF_CONFIGURATION of rf_configuration, the call fails instead of
\* returning normally.
C9_SilentWriteFails ==
    /\ IsCall("write_registers") \/ IsCall("rf_configuration")
    /\ Len(CallCmds) = 1
    /\ NoFrame(ReplyTo(1))
    => call.tag = "Raise"

-----------------------------------------------------------------------------
(* C10 *)

IsLinkCall == IsCall("send_frame") \/ IsCall("get_device_response")

\* what the reads of a completed call returned, in order: the 6 ACK bytes, the
\* response head, the data packet, the checksum byte, the postamble byte
Reads(c) ==
    LET r == SelectSeq(c.log, LAMBDA e : e.op = "read")
    IN  [i \in DOMAIN r |-> r[i].data]

\* a non-empty response head was read
HeadRead(c) == Len(Reads(c)) >= 2 /\ Reads(c)[2] # <<>>

\* the last thing the call did on the serial channel was to write the ACK
AckWritten(c) ==
    /\ c.log # <<>>
    /\ c.log[Len(c.log)].op = "write"
    /\ c.log[Len(c.log)].data = ACK_FRAME

\* a full head whose length checksum and frame identifier are right
HeadAccepted(head) ==
    /\ Len(head) = 6
    /\ (head[4] + head[5]) % 256 = 0
    /\ head[6] = TFI_DEVICE

\* the checksum byte and the postamble byte both arrived
TrailerRead(c) == Len(Reads(c)) = 5 /\ Reads(c)[4] # <<>> /\ Reads(c)[5] # <<>>

\* C10 as stated: whenever a non-empty response head was read, the ACK is written
\* before the call returns, whatever the checks found.
C10_AckUnconditional_AsStated ==
    IsLinkCall /\ HeadRead(call) => AckWritten(call)

\* C10: when a non-empty response head was read, the ACK is written exactly when
\* the head is complete and passes the length-checksum and frame-identifier
\* checks and the checksum and postamble bytes arrive; the postamble is read
\* whenever the checksum byte arrived, and an acknowledged call returns the data
\* packet, whatever the start-code, data-checksum and postamble checks found.
C10_AckWhenFrameTaken ==
    IsLinkCall /\ HeadRead(call) =>
        /\ AckWritten(call) <=> (HeadAccepted(Reads(call)[2]) /\ TrailerRead(call))
        /\ Len(Reads(call)) >= 4 /\ Reads(call)[4] # <<>> => Len(Reads(call)) = 5
        /\ AckWritten(call) => call.tag = "Bytes" /\ call.val = Reads(call)[3]
        /\ ~AckWritten(call) => call.tag \in {"None", "Raise"}

\* a response that failed its data checksum was acknowledged and returned
C10_Witness ==
    /\ IsLinkCall
    /\ HeadRead(call)
    /\ AckWritten(call)
    /\ \E i \in DOMAIN call.errs : call.errs[i] = "data checksum"
    /\ call.tag = "Bytes"

-----------------------------------------------------------------------------
(* C11 *)

\* the serial operations of a completed call, as (operation, size) pairs
SerialOps(c) == [i \in DOMAIN c.log |-> <<c.log[i].op, c.log[i].n>>]

\* C11: in every send_frame call that returns a payload the serial operations are
\* exactly: write the frame (once), read 6 (ACK), read 6 (head), read LEN-1, read
\* 1 (data checksum), read 1 (postamble), write the ACK frame; nothing follows.
C11_HandshakeOrder ==
    IsCall("send_frame") /\ call.tag = "Bytes" =>
        /\ Len(call.log) = 7
        /\ call.log[1].op = "write" /\ call.log[1].data = call.args.frame
        /\ call.log[2].op = "read" /\ call.log[2].n = 6
        /\ call.log[3].op = "read" /\ call.log[3].n = 6
        /\ call.log[4].op = "read" /\ call.log[4].n = call.log[3].data[4] - 1
        /\ call.log[5].op = "read" /\ call.log[5].n = 1
        /\ call.log[6].op = "read" /\ call.log[6].n = 1
        /\ call.log[7].op = "write" /\ call.log[7].data = ACK_FRAME
        /\ call.val = call.log[4].data

\* a send_frame that returned a payload of two bytes
C11_Witness ==
    /\ IsCall("send_frame")
    /\ call.tag = "Bytes"
    /\ Len(call.val) = 2
    /\ SerialOps(call) = <<<<"write", Len(call.args.frame)>>, <<"read", 6>>, <<"read", 6>>,
                           <<"read", 2>>, <<"read", 1>>, <<"read", 1>>, <<"write", 6>>>>

-----------------------------------------------------------------------------
(* C12, C13 *)

\* the input buffer was empty when send_frame wrote its frame: what the call
\* read, and what it left, is the answer of the device to that frame
OnCleanLine(c) ==
    /\ c.op = "send_frame"
    /\ Concat(Reads(c)) \o rx = device_answer(c.script[1], c.args.frame)

\* the payload of the response the device built for the frame of the call
AnswerPayload(c) == PayloadOf(device_frame(c.script[1], c.args.frame))

Logged(c, what) == \E i \in DOMAIN c.errs : c.errs[i] = what

\* C12: when the first 6 bytes read are not the ACK frame and a well-formed
\* response frame follows, the mismatch is logged, the response frame is read and
\* its payload is returned.
C12_AckMismatchContinues ==
    /\ IsLinkCall /\ Len(Reads(call)) >= 1 /\ Reads(call)[1] \notin {<<>>, ACK_FRAME}
       => Logged(call, "no ack") /\ Len(Reads(call)) >= 2
    /\ IsCall("send_frame") /\ OnCleanLine(call) /\ call.script[1].k = "bad_ack"
       => /\ Reads(call)[1] # ACK_FRAME
          /\ call.tag = "Bytes"
          /\ call.val = AnswerPayload(call)
          /\ call.errs = <<"no ack">>

\* six bytes that are not the ACK frame, then a response carrying two bytes
C12_Witness ==
    /\ IsCall("send_frame")
    /\ OnCleanLine(call)
    /\ call.script[1].k = "bad_ack"
    /\ Reads(call)[1] # ACK_FRAME
    /\ call.tag = "Bytes"
    /\ Len(call.val) = 2

\* C13 as stated: a response whose length checksum or whose data checksum is
\* wrong is still read to its end and its payload returned.
C13_ChecksumsContinue_AsStated ==
    IsCall("send_frame") /\ OnCleanLine(call) /\ call.script[1].k \in {"bad_lcs", "bad_dcs"}
        => call.tag = "Bytes" /\ call.val = AnswerPayload(call)

\* C13: a wrong data checksum is logged and the payload is returned all the same;
\* a wrong length checksum is logged and ends the call with no frame, the payload
\* left unread and no ACK written.
C13_ChecksumRecovery ==
    /\ IsCall("send_frame") /\ OnCleanLine(call) /\ call.script[1].k = "bad_dcs"
       => /\ call.tag = "Bytes"
          /\ call.val = AnswerPayload(call)
          /\ call.errs = <<"data checksum">>
          /\ AckWritten(call)
    /\ IsCall("send_frame") /\ OnCleanLine(call) /\ call.script[1].k = "bad_lcs"
       => /\ call.tag = "None"
          /\ call.errs = <<"length checksum">>
          /\ Len(Reads(call)) = 2
          /\ ~AckWritten(call)
          /\ rx # <<>>

\* a response with a wrong length checksum was given up after its head
C13_Witness ==
    /\ IsCall("send_frame")
    /\ OnCleanLine(call)
    /\ call.script[1].k = "bad_lcs"
    /\ call.tag = "None"
    /\ Logged(call, "length checksum")
    /\ Len(Reads(call)) = 2

-----------------------------------------------------------------------------
(* C14 *)

\* a parse of the frame for a payload of 1..250 bytes, fed in the given form
Parsed(fed) ==
    /\ IsCall("parse_frame")
    /\ call.args.fed = fed
    /\ Len(call.args.data) \in 1..250

\* C14 as stated: the parser, fed the ACK and the frame construct_frame builds for
\* a payload of 1..250 bytes, returns that payload.
C14_RoundTrip_AsStated ==
    Parsed("host") => call.tag = "Bytes" /\ call.val = call.args.data

\* C14: the parser recovers exactly the payload of 1..250 bytes from the frame
\* of construct_frame once its frame identifier is the device's 0xD5 (with no
\* error logged when the data checksum is computed over 0xD5, with the checksum
\* failure logged when it is left as built); the frame as construct_frame builds
\* it carries 0xD4 and is given up after its head with no frame returned.
C14_RoundTrip ==
    /\ Parsed("device") => /\ call.tag = "Bytes" /\ call.val = call.args.data
                           /\ call.errs = <<>>
                           /\ AckWritten(call)
    /\ Parsed("marked") => /\ call.tag = "Bytes" /\ call.val = call.args.data
                           /\ call.errs = <<"data checksum">>
                           /\ AckWritten(call)
    /\ Parsed("host")   => /\ call.tag = "None"
                           /\ call.errs = <<"tfi">>
                           /\ Len(Reads(call)) = 2
                           /\ ~AckWritten(call)

\* a payload of 250 bytes came back from the frame the device builds for it
C14_Witness ==
    /\ Parsed("device")
    /\ Len(call.args.data) = 250
    /\ call.val = call.args.data
    /\ call.val[250] = 250

-----------------------------------------------------------------------------
(* C15 *)

IsByte(x) == x \in 0..255

\* the frame is head ++ p ++ <<DCS, 0>> with the fixed bytes in their places
FrameLayout(frame, p) ==
    /\ Len(frame) = Len(p) + 8
    /\ SubSeq(frame, 1, 3) = <<0, 0, 255>>
    /\ frame[6] = 212
    /\ SubSeq(frame, 7, Len(p) + 6) = p
    /\ frame[Len(frame)] = 0
    /\ \A i \in DOMAIN frame : IsByte(frame[i])

\* sum of the bytes p[lo..hi]
RECURSIVE SumFromTo(_, _, _)
SumFromTo(p, lo, hi) ==
    IF lo > hi THEN 0
    ELSE IF lo = hi THEN p[lo]
    ELSE SumFromTo(p, lo, (lo + hi) \div 2) + SumFromTo(p, (lo + hi) \div 2 + 1, hi)

\* C15 as stated: construct_frame(p) = [00, 00, FF, LEN, LCS, D4] ++ p ++ [DCS, 00]
\* with LEN = len(p)+1, LEN + LCS = 0 mod 256, D4 + sum(p) + DCS = 0 mod 256,
\* every element a byte.
C15_FrameInvariant_AsStated ==
    IsCall("construct_frame") =>
        /\ FrameLayout(call.val, call.args.data)
        /\ call.val[4] = Len(call.args.data) + 1
        /\ (call.val[4] + call.val[5]) % 256 = 0
        /\ (212 + SumFromTo(call.args.data, 1, Len(call.args.data))
                + call.val[Len(call.val) - 1]) % 256 = 0

\* C15: the same, with LEN = (len(p)+1) mod 256, which is len(p)+1 for the
\* payloads of at most 254 bytes.
C15_FrameInvariant ==
    IsCall("construct_frame") =>
        /\ FrameLayout(call.val, call.args.data)
        /\ call.val[4] = (Len(call.args.data) + 1) % 256
        /\ Len(call.args.data) <= 254 => call.val[4] = Len(call.args.data) + 1
        /\ (call.val[4] + call.val[5]) % 256 = 0
        /\ (212 + SumFromTo(call.args.data, 1, Len(call.args.data))
                + call.val[Len(call.val) - 1]) % 256 = 0

\* the frame of a 255-byte payload, whose length byte wraps to 0
C15_Witness ==
    /\ IsCall("construct_frame")
    /\ Len(call.args.data) = 255
    /\ call.val[4] = 0
    /\ call.val[5] = 0
    /\ call.args.data[255] = 255

-----------------------------------------------------------------------------
(* C16 *)

\* the indices n of 1..16 whose duration 100 * 2^(n-1) microseconds covers t
Covering(t) == {n \in 1..16 : 100 * 2^(n - 1) >= t}

\* the smallest of them, 16 when there is none
SmallestCovering(t) ==
    IF Covering(t) = {} THEN 16
    ELSE CHOOSE n \in Covering(t) : \A k \in Covering(t) : n <= k

-----------------------------------------------------------------------------
(* C17 *)

\* the field of width bits of x that starts at bit lo
Field(x, lo, width) == (x \div 2^lo) % 2^width

\* where in its log the call wrote its k-th command
CommandAt(c, k) ==
    SelectSeq([i \in DOMAIN c.log |-> i], LAMBDA i : IsCommandWrite(c.log[i]))[k]

\* the data packet read in answer to the k-th command: ACK, head, then the packet
PacketFor(c, k) == c.log[CommandAt(c, k) + 3].data

\* the values of TX_MODE, RX_MODE, TX_AUTO, BIT_FRAMING read back by the call
ReadBack(c) == Tail(PacketFor(c, 2))

\* the (address, value) items of the WRITE_REGISTER the call sent
WrittenItems(c) == Triples(Tail(Commands(c.log)[3]))

\* the call read the four registers back and wrote the configuration
Configured(c) ==
    /\ c.op = "transceive_raw"
    /\ Len(Commands(c.log)) >= 3
    /\ Commands(c.log)[2] = ReadCommand(MODE_REGISTERS)
    /\ Commands(c.log)[3][1] = WRITE_REGISTER

ModeKept(written, read, a) ==
    /\ IsByte(written)
    /\ Field(written, 2, 2) = Field(read, 2, 2)
    /\ Field(written, 4, 3) = _BITRATE(a.bitrate)
    /\ Field(written, 0, 2) = _FRAMING(a.type_)
    /\ Field(written, 7, 1) = Bool(a.crc)

\* C17: each of TX_MODE, RX_MODE, TX_AUTO, BIT_FRAMING is written with the bits
\* read back, except the configured fields: bits 4-6 (bit rate), 0-1 (framing)
\* and 7 (CRC) of the two modes, bit 6 of TX_AUTO (set iff type A), bits 0-2 of
\* BIT_FRAMING (last bits); every written value is a byte.
C17_MaskedUpdate ==
    call # NoCall /\ Configured(call) =>
        /\ Len(ReadBack(call)) = 4
        /\ {REG_TX_MODE, REG_RX_MODE, REG_TX_AUTO, REG_BIT_FRAMING}
               \subseteq Keys(WrittenItems(call))
        /\ ModeKept(ValueOf(WrittenItems(call), REG_TX_MODE), ReadBack(call)[1], call.args)
        /\ ModeKept(ValueOf(WrittenItems(call), REG_RX_MODE), ReadBack(call)[2], call.args)
        /\ IsByte(ValueOf(WrittenItems(call), REG_TX_AUTO))
        /\ Field(ValueOf(WrittenItems(call), REG_TX_AUTO), 6, 1)
               = Bool(call.args.type_ = "A")
        /\ Field(ValueOf(WrittenItems(call), REG_TX_AUTO), 0, 6)
               = Field(ReadBack(call)[3], 0, 6)
        /\ Field(ValueOf(WrittenItems(call), REG_TX_AUTO), 7, 1)
               = Field(ReadBack(call)[3], 7, 1)
        /\ IsByte(ValueOf(WrittenItems(call), REG_BIT_FRAMING))
        /\ Field(ValueOf(WrittenItems(call), REG_BIT_FRAMING), 0, 3)
               = call.args.bits % 8
        /\ Field(ValueOf(WrittenItems(call), REG_BIT_FRAMING), 3, 5)
               = Field(ReadBack(call)[4], 3, 5)

\* type B at 424 kbit/s without CRC over four registers read back as 0xFF
C17_Witness ==
    /\ call # NoCall /\ Configured(call)
    /\ call.args.type_ = "B" /\ call.args.bitrate = 424 /\ ~call.args.crc
    /\ call.args.bits = 7
    /\ ReadBack(call) = <<255, 255, 255, 255>>
    /\ ValueOf(WrittenItems(call), REG_TX_MODE) = 47
    /\ ValueOf(WrittenItems(call), REG_TX_AUTO) = 191
    /\ ValueOf(WrittenItems(call), REG_BIT_FRAMING) = 255

-----------------------------------------------------------------------------
(* C18 *)

\* tx_mode 0b10100101 updated for 212 kbit/s (field 0b001) with the framing and
\* the CRC enable it already has
BitRateOnly ==
    /\ IsCall("new_mode")
    /\ call.args.mode = 165
    /\ call.args.a.bitrate = 212
    /\ call.args.a.type_ = "DEP"
    /\ call.args.a.crc

\* C18 as stated: TX_MODE 0b10100101 with the bit-rate field set to 0b001 and the
\* other fields left as they are becomes 0b10011101.
C18_BitRateExample_AsStated == BitRateOnly => call.val = <<157>>

\* C18: TX_MODE 0b10100101 with the bit-rate field set to 0b001 and the other
\* fields left as they are becomes 0b10010101; whenever the framing and the CRC
\* enable asked for are those the register already has, only bits 4-6 change.
C18_BitRateExample ==
    /\ BitRateOnly => call.val = <<149>>
    /\ IsCall("new_mode")
       /\ _FRAMING(call.args.a.type_) = Field(call.args.mode, 0, 2)
       /\ Bool(call.args.a.crc) = Field(call.args.mode, 7, 1)
       => call.val = <<call.args.mode - 16 * Field(call.args.mode, 4, 3)
                                      + 16 * _BITRATE(call.args.a.bitrate)>>

\* the example of the claim was computed
C18_Witness == BitRateOnly /\ call.val = <<149>>

-----------------------------------------------------------------------------
(* C19 *)

\* a poll whose passive-activation command the device did not answer
PollUnanswered ==
    /\ IsCall("poll_a") \/ IsCall("poll_b")
    /\ NoFrame(ReplyTo(1))

-----------------------------------------------------------------------------
(* C20 *)

\* C20: poll_a sends exactly one command, IN_LIST_PASSIVE_TARGET with arguments
\* 01 00; when the response reports zero targets it returns the no-target result
\* and raises nothing.
C20_PollAZeroTargets ==
    IsCall("poll_a") =>
        /\ CallCmds = <<<<IN_LIST_PASSIVE_TARGET, 1, 0>>>>
        /\ FrameReturned(call) /\ Len(PacketFor(call, 1)) >= 2
           /\ PacketFor(call, 1)[1] = IN_LIST_PASSIVE_TARGET + 1
           /\ PacketFor(call, 1)[2] = 0
           => call.tag = "None" /\ call.errs = <<>>

\* a poll_a answered with zero targets
C20_Witness ==
    /\ IsCall("poll_a")
    /\ FrameReturned(call)
    /\ PacketFor(call, 1) = <<75, 0>>
    /\ call.tag = "None"
    /\ Len(CallCmds) = 1

-----------------------------------------------------------------------------
(* C21 *)

\* an answer to the passive activation that reports one target and holds every
\* field: p = 4B 01 Tg SENS(2) SEL L id(L) K ats(K-1) ...
OneTarget(p) ==
    /\ Len(p) >= 8
    /\ p[1] = IN_LIST_PASSIVE_TARGET + 1
    /\ p[2] = 1
    /\ Len(p) >= 8 + p[7]
    /\ p[8 + p[7]] >= 1
    /\ Len(p) >= 7 + p[7] + p[8 + p[7]]

\* C21: for a response reporting one target, poll_a takes, in this order after
\* the echoed command and the target count: target id, 2 bytes of sense
\* response, select response, identifier length L and L identifier bytes,
\* answer-to-select length K and K-1 answer-to-select bytes (the length byte is
\* not stored).
C21_PollAParsing ==
    IsCall("poll_a") /\ FrameReturned(call) /\ OneTarget(PacketFor(call, 1)) =>
        /\ call.tag = "Tag"
        /\ call.val.type = "A"
        /\ call.val.target_id = PacketFor(call, 1)[3]
        /\ call.val.sense_res = SubSeq(PacketFor(call, 1), 4, 5)
        /\ call.val.sel_res = PacketFor(call, 1)[6]
        /\ call.val.nfcid = SubSeq(PacketFor(call, 1), 8, 7 + PacketFor(call, 1)[7])
        /\ call.val.ats = SubSeq(PacketFor(call, 1), 9 + PacketFor(call, 1)[7],
                                 7 + PacketFor(call, 1)[7]
                                   + PacketFor(call, 1)[8 + PacketFor(call, 1)[7]])

\* identifier 01 02 03 04 and answer-to-select length 02 followed by 75
C21_Witness ==
    /\ IsCall("poll_a")
    /\ PacketFor(call, 1) = <<75, 1, 1, 0, 4, 32, 4, 1, 2, 3, 4, 2, 117>>
    /\ call.tag = "Tag"
    /\ call.val.nfcid = <<1, 2, 3, 4>>
    /\ call.val.ats = <<117>>
    /\ call.val.sel_res = 32
    /\ call.val.sense_res = <<0, 4>>

-----------------------------------------------------------------------------
(* C22 *)

\* the firmware check was answered with this payload
FirmwareAnswered(payload) ==
    /\ IsCall("verify_firmware_version")
    /\ FrameReturned(call)
    /\ PacketFor(call, 1) = payload

\* C22 as stated: when the firmware check returns the payload 02 32 01 06 07,
\* verify_firmware_version returns true.
C22_FirmwareExample_AsStated ==
    FirmwareAnswered(<<2, 50, 1, 6, 7>>) => call.tag = "Bool" /\ call.val

\* C22: verify_firmware_version returns true exactly for a payload of 5 bytes
\* that starts with GET_FIRMWARE_VERSION+1 = 03 and 32: true for
\* 03 32 01 06 07, false (and logged) for 02 32 01 06 07.
C22_FirmwareExample ==
    /\ FirmwareAnswered(<<3, 50, 1, 6, 7>>) => call.tag = "Bool" /\ call.val
    /\ FirmwareAnswered(<<2, 50, 1, 6, 7>>) =>
           call.tag = "Bool" /\ ~call.val /\ call.errs = <<"firmware">>
    /\ IsCall("verify_firmware_version") /\ call.tag = "Bool" =>
           call.val = /\ Len(PacketFor(call, 1)) = 5
                      /\ PacketFor(call, 1)[1] = 3
                      /\ PacketFor(call, 1)[2] = 50

\* the firmware check answered 03 32 01 06 07 returned true
C22_Witness ==
    /\ FirmwareAnswered(<<3, 50, 1, 6, 7>>)
    /\ call.tag = "Bool"
    /\ call.val

-----------------------------------------------------------------------------
(* C30 *)

\* the device commands of the constructor, without its wake-up write
InitCmds == SelectSeq(CallCmds, LAMBDA p : p # <<>>)

InitOrder == <<<<GET_FIRMWARE_VERSION>>, <<SAM_CONFIGURATION, 1, 0>>,
               <<RF_CONFIGURATION, 5, 0, 0, 0>>>>

\* the answer to the firmware check identifies the expected chip
Identified(reply) ==
    /\ reply.k = "raw"
    /\ Len(reply.data) = 5
    /\ reply.data[1] = 3
    /\ reply.data[2] = 50

\* C30: construction leaves both caches empty and issues the firmware check,
\* then the SAM configuration, then RF_CONFIGURATION 05 00 00 00, in that
\* order; when the firmware check does not identify the chip, construction
\* raises and neither configuration command is sent.
C30_InitOrderAndAbort ==
    IsCall("__init__") /\ call.args.ports > 0 =>
        /\ register_cache = <<>> /\ rf_configuration_cache = <<>>
        /\ Len(InitCmds) \in 1..3
        /\ InitCmds = SubSeq(InitOrder, 1, Len(InitCmds))
        /\ call.tag # "Raise" => InitCmds = InitOrder
        /\ ~Identified(ReplyTo(1)) =>
               call.tag = "Raise" /\ call.exc = "RuntimeError" /\ Len(InitCmds) = 1

\* a construction that ran to its end over a session that had cached registers,
\* and one that the firmware check aborted
C30_Witness ==
    /\ IsCall("__init__")
    /\ call.pre_rc # <<>>
    /\ call.args.noise # <<>>
    /\ call.tag = "None"
    /\ InitCmds = InitOrder

InitAborted ==
    /\ IsCall("__init__")
    /\ call.args.ports > 0
    /\ ~Identified(ReplyTo(1))
    /\ call.tag = "Raise"

-----------------------------------------------------------------------------
(* C23 *)

\* the reference CRC_A, one bit at a time: shift right, and fold the
\* reflected polynomial 0x8408 in when the bit shifted out is 1
RefBit(crc) == IF crc % 2 = 1 THEN BitXor(crc \div 2, 33800) ELSE crc \div 2

RefByte(crc, byte) ==
    RefBit(RefBit(RefBit(RefBit(RefBit(RefBit(RefBit(RefBit(BitXor(crc, byte)))))))))

RECURSIVE RefRange(_, _, _, _)
RefRange(crc, data, lo, hi) ==
    IF lo > hi THEN crc
    ELSE IF lo = hi THEN RefByte(crc, data[lo])
    ELSE LET c == RefRange(crc, data, lo, (lo + hi) \div 2)
         IN  IF c >= 0 THEN RefRange(c, data, (lo + hi) \div 2 + 1, hi) ELSE c

RefCrcA(crc, data) == RefRange(crc, data, 1, Len(data))

\* C23: crc16a(d) is 2 bytes, the reference CRC_A of d (register 0x6363 at the
\* start, no final XOR) low byte first; the running register stays within
\* 0..0xFFFF; with_crc16a(d) = d ++ crc16a(d); the copy in casimir.py agrees.
C23_CrcA ==
    IsCall("crc16a") =>
        /\ Len(call.val.crc) = 2
        /\ call.val.crc = <<RefCrcA(25443, call.args) % 256,
                            RefCrcA(25443, call.args) \div 256>>
        /\ \A i \in DOMAIN call.val.registers : call.val.registers[i] \in 0..65535
        /\ call.val.with = call.args \o call.val.crc
        /\ call.val.casimir_crc = call.val.crc
        /\ call.val.casimir_with = call.val.with

\* the checksum of 12 34 is 26 CF
C23_Witness ==
    /\ IsCall("crc16a")
    /\ call.args = <<18, 52>>
    /\ call.val.with = <<18, 52, 38, 207>>

-----------------------------------------------------------------------------
(* C24 *)

\* the frames from lo to hi have increasing timestamps
Increasing(frames, lo, hi) ==
    \A i \in lo..(hi - 1) : frames[i].timestamp < frames[i + 1].timestamp

\* a polling loop: a non-expeditable frame first, timestamps increasing but for
\* at most one wrap, every timestamp after the wrap below the first one
IsPollingLoop(frames) ==
    /\ frames # <<>>
    /\ frames[1].type \notin {"F", "U"}
    /\ \E k \in 1..Len(frames) :
           /\ Increasing(frames, 1, k)
           /\ Increasing(frames, k + 1, Len(frames))
           /\ \A j \in (k + 1)..Len(frames) : frames[j].timestamp < frames[1].timestamp

\* C24: for every polling loop and every limit in 0..len-1, restoring the
\* original order of the expedited frames gives the original list back.
C24_OrderingRoundTrip ==
    /\ IsCall("apply_original_frame_ordering")
    /\ IsPollingLoop(call.args.frames)
    /\ call.args.limit < Len(call.args.frames)
    => call.val.restored = call.args.frames

\* a loop that wraps between two expedited frames, both of them moved
C24_Witness ==
    /\ IsCall("apply_original_frame_ordering")
    /\ IsPollingLoop(call.args.frames)
    /\ call.args.limit = 2
    /\ Len(call.args.frames) = 4
    /\ call.args.frames[2].type = "U" /\ call.args.frames[2].timestamp > 0
    /\ call.args.frames[3].type = "F" /\ call.args.frames[3].timestamp = 0
    /\ call.val.expedited # call.args.frames
    /\ call.val.restored = call.args.frames

\* outside the precondition the order is not restored
OrderLost ==
    /\ IsCall("apply_original_frame_ordering")
    /\ ~IsPollingLoop(call.args.frames)
    /\ call.val.restored # call.args.frames

-----------------------------------------------------------------------------
(* C26 *)

\* C26: transceive sends one IN_DATA_EXCHANGE command.  With no frame back, or
\* with a non-zero status byte after the echoed command byte, it returns None
\* and does not raise; with a zero status byte it returns the response without
\* its first two bytes.  It raises only on a response that ends before the
\* status byte.
C26_Transceive ==
    IsCall("transceive") =>
        /\ CallCmds = <<<<IN_DATA_EXCHANGE>> \o call.args>>
        /\ ~FrameReturned(call) => call.tag = "None"
        /\ FrameReturned(call) /\ Len(PacketFor(call, 1)) >= 2 =>
               IF PacketFor(call, 1)[2] # 0
               THEN call.tag = "None" /\ "exchange" \in Range(call.errs)
               ELSE /\ call.tag = "Bytes"
                    /\ call.val = SubSeq(PacketFor(call, 1), 3, Len(PacketFor(call, 1)))
        /\ FrameReturned(call) /\ PacketFor(call, 1) = <<>> => call.tag = "None"
        /\ call.tag = "Raise" =>
               /\ FrameReturned(call)
               /\ Len(PacketFor(call, 1)) = 1
               /\ call.exc = "IndexError"

\* a response 41 00 90 00 gave 90 00
C26_Witness ==
    /\ IsCall("transceive")
    /\ FrameReturned(call)
    /\ PacketFor(call, 1) = <<65, 0, 144, 0>>
    /\ call.tag = "Bytes"
    /\ call.val = <<144, 0>>

\* a non-zero status byte gave None, so did silence
ExchangeRefused ==
    /\ IsCall("transceive")
    /\ FrameReturned(call)
    /\ PacketFor(call, 1) = <<65, 1, 9>>
    /\ call.tag = "None"

ExchangeUnanswered == IsCall("transceive") /\ ~FrameReturned(call) /\ call.tag = "None"

-----------------------------------------------------------------------------
(* C25 *)

\* the call got as far as its IN_COMMUNICATE_THRU command, the last one it sends
ThruSent ==
    /\ IsCall("transceive_raw")
    /\ CallCmds # <<>>
    /\ CallCmds[Len(CallCmds)][1] = IN_COMMUNICATE_THRU

\* the reply of the device to that command
ThruReply == ReplyTo(Len(CallCmds))

\* C25 as stated: when the IN_COMMUNICATE_THRU exchange yields no tag data (a
\* non-zero first status byte, or no response frame at all) transceive_raw
\* returns None and does not raise; with a zero status byte it returns the
\* remaining bytes.
C25_NoDataIsNormal ==
    ThruSent =>
        /\ NoFrame(ThruReply) => call.tag = "None"
        /\ ThruReply.k = "ok" /\ ThruReply.data[1] # 0 => call.tag = "None"
        /\ ThruReply.k = "ok" /\ ThruReply.data[1] = 0 =>
               call.tag = "Bytes" /\ call.val = Tail(ThruReply.data)

\* the part of it that the code keeps: the cases with a response frame
ThruAnswered ==
    ThruSent /\ ThruReply.k = "ok" =>
        IF ThruReply.data[1] # 0 THEN call.tag = "None"
        ELSE call.tag = "Bytes" /\ call.val = Tail(ThruReply.data)

\* no response frame for IN_COMMUNICATE_THRU: the call raised TypeError
ThruUnanswered ==
    /\ ThruSent
    /\ NoFrame(ThruReply)
    /\ call.tag = "Raise"
    /\ call.exc = "TypeError"

-----------------------------------------------------------------------------
(* C27 *)

\* the commands the same transceive_raw call would issue in the current state
RawAgainCmds(script) == Commands(transceive_raw(Self(script), call.args).self.log)

\* what the device may answer to the one command of the repeated call
AgainScripts == {<<[k |-> "ok", data |-> <<0, 165>>]>>, <<[k |-> "silent", data |-> <<>>]>>}

OnlyExchange == <<<<IN_COMMUNICATE_THRU>> \o tr_data(call.args)>>

\* the WRITE_REGISTER commands of the completed call, and the items of the first
WriteCmds == SelectSeq(CallCmds, LAMBDA p : p # <<>> /\ p[1] = WRITE_REGISTER)
WriteItems == IF WriteCmds = <<>> THEN <<>> ELSE Triples(Tail(WriteCmds[1]))

\* the addresses of the full configuration of a type, in the order written
ConfigurationAddrs(type_) ==
    MODE_REGISTERS
    \o [i \in DOMAIN _REGISTER_CONFIGURATION_FOR_TYPE(type_) |->
           _REGISTER_CONFIGURATION_FOR_TYPE(type_)[i][1]]

\* the write carries the four mode registers and the whole preset of the type
FullWrite ==
    /\ [i \in DOMAIN WriteItems |-> WriteItems[i][1]] = ConfigurationAddrs(call.args.type_)
    /\ SubSeq(WriteItems, 5, Len(WriteItems)) = _REGISTER_CONFIGURATION_FOR_TYPE(call.args.type_)

\* C27 as stated: after a transceive_raw call with cache_configuration=True the
\* same call again issues IN_COMMUNICATE_THRU only, and any transceive_raw call
\* issues at most one WRITE_REGISTER, which carries the four mode registers
\* together with the preset of the requested type.
C27_RedundantConfiguration_AsStated ==
    IsCall("transceive_raw") =>
        /\ call.args.cache_configuration =>
               \A script \in AgainScripts : RawAgainCmds(script) = OnlyExchange
        /\ Len(WriteCmds) <= 1
        /\ Len(WriteCmds) = 1 => FullWrite

\* C27: after a transceive_raw call with cache_configuration=True that got as
\* far as its exchange, the same call again issues IN_COMMUNICATE_THRU only.
\* Any call issues at most one WRITE_REGISTER; with cache_configuration=False
\* it carries the four mode registers and the preset, with True the items of
\* them that the cache did not hold with that value.
C27_RedundantConfiguration ==
    IsCall("transceive_raw") =>
        /\ call.args.cache_configuration /\ ThruSent =>
               \A script \in AgainScripts : RawAgainCmds(script) = OnlyExchange
        /\ Len(WriteCmds) <= 1
        /\ ~call.args.cache_configuration /\ ThruSent => Len(WriteCmds) = 1 /\ FullWrite
        /\ call.args.cache_configuration =>
               /\ Stale(call.pre_rc, WriteItems) = WriteItems
               /\ \A i \in DOMAIN WriteItems :
                      WriteItems[i][1] \in Range(ConfigurationAddrs(call.args.type_))
               /\ ThruSent =>
                      \A i \in DOMAIN _REGISTER_CONFIGURATION_FOR_TYPE(call.args.type_) :
                          LET p == _REGISTER_CONFIGURATION_FOR_TYPE(call.args.type_)[i]
                          IN  \/ p \in Range(WriteItems)
                              \/ p[1] \in DOMAIN call.pre_rc /\ call.pre_rc[p[1]] = p[2]

\* the repeated call itself: a cached configuration, one command on the wire
C27_Witness ==
    /\ IsCall("transceive_raw")
    /\ call.args.cache_configuration
    /\ call.pre_rc # <<>>
    /\ CallCmds = OnlyExchange

\* a cached call that wrote BIT_FRAMING and nothing else
PartialWrite ==
    /\ IsCall("transceive_raw")
    /\ call.args.cache_configuration
    /\ Len(WriteItems) = 1
    /\ WriteItems[1][1] = REG_BIT_FRAMING

\* a cached call that stopped at its READ_REGISTER, which the same call repeats
ReadRepeated ==
    /\ IsCall("transceive_raw")
    /\ call.args.cache_configuration
    /\ call.tag = "Raise"
    /\ \E script \in AgainScripts : RawAgainCmds(script) # OnlyExchange

-----------------------------------------------------------------------------
(* C28 *)

\* the payload ends with the CRC_A of what precedes it
CrcAppended(payload) ==
    /\ Len(payload) >= 2
    /\ payload = with_crc16a(SubSeq(payload, 1, Len(payload) - 2))

\* the byte poll_b takes from the activation response as afi
PollBAfi == PacketFor(call, 1)[2]

\* C28: poll_b sends, in this order, IN_LIST_PASSIVE_TARGET for modulation 3,
\* the broadcast deselect (BIT_FRAMING write, IN_COMMUNICATE_THRU with CRC_A
\* appended), a BIT_FRAMING write of 00, and IN_COMMUNICATE_THRU with
\* 05 afi 08 and its CRC_A; it returns a tag only after all five, and raises
\* when the last one gets no response.
C28_PollBOrder ==
    IsCall("poll_b") =>
        /\ Len(CallCmds) \in 1..5
        /\ CallCmds[1] = <<IN_LIST_PASSIVE_TARGET, 1, 3, 0>>
        /\ Len(CallCmds) >= 2 => CallCmds[2] = <<WRITE_REGISTER, 99, 61, 0>>
        /\ Len(CallCmds) >= 3 =>
               CallCmds[3][1] = IN_COMMUNICATE_THRU /\ CrcAppended(Tail(CallCmds[3]))
        /\ Len(CallCmds) >= 4 => CallCmds[4] = <<WRITE_REGISTER, 99, 61, 0>>
        /\ Len(CallCmds) = 5 =>
               CallCmds[5] = <<IN_COMMUNICATE_THRU, 5, PollBAfi, 8>>
                             \o crc16a(<<5, PollBAfi, 8>>)
        /\ Len(CallCmds) = 5 /\ NoFrame(ReplyTo(5)) =>
               call.tag = "Raise" /\ call.exc = "RuntimeError"
        /\ call.tag = "Tag" => Len(CallCmds) = 5 /\ ~NoFrame(ReplyTo(5))

\* a poll that found a type B target
C28_Witness ==
    /\ IsCall("poll_b")
    /\ call.tag = "Tag"
    /\ Len(CallCmds) = 5

\* a poll whose WUPB was not answered
WupbUnanswered ==
    /\ IsCall("poll_b")
    /\ Len(CallCmds) = 5
    /\ NoFrame(ReplyTo(5))
    /\ call.tag = "Raise"

-----------------------------------------------------------------------------
(* C29 *)

\* C29 as stated: the IN_COMMUNICATE_THRU payload of the broadcast deselect of
\* poll_b is the byte C2 followed by the two CRC_A bytes of C2.
C29_DeselectPayload ==
    IsCall("poll_b") /\ Len(CallCmds) >= 3 =>
        CallCmds[3] = <<IN_COMMUNICATE_THRU, 194>> \o crc16a(<<194>>)

\* what is sent: 194 zero bytes and their CRC_A
DeselectSent ==
    IsCall("poll_b") /\ Len(CallCmds) >= 3 =>
        /\ Len(CallCmds[3]) = 1 + 194 + 2
        /\ \A i \in 2..195 : CallCmds[3][i] = 0

-----------------------------------------------------------------------------
(* C31 *)

\* C31 as stated: a requested timeout that is zero or negative selects timeout
\* index 16 (0x10), as a timeout that is too large does.
C31_NonPositiveTimeout ==
    IsCall("transceive_raw") /\ call.args.timeout <= 0 =>
        CallCmds[1] = <<RF_CONFIGURATION, VARIOUS_TIMINGS, 0, 11, 16>>

\* what is sent: index 1, the shortest duration
NonPositiveSelectsFirst ==
    IsCall("transceive_raw") /\ call.args.timeout <= 0 =>
        CallCmds[1] = <<RF_CONFIGURATION, VARIOUS_TIMINGS, 0, 11, 1>>

\* a call with a timeout of zero
ZeroTimeout == IsCall("transceive_raw") /\ call.args.timeout = 0

-----------------------------------------------------------------------------
(* C32 *)

\* a write_registers or rf_configuration call whose one command did not succeed:
\* no response frame, or a response that echoes another command
WriteNotAcknowledged ==
    /\ IsCall("write_registers") \/ IsCall("rf_configuration")
    /\ Len(CallCmds) = 1
    /\ NoFrame(ReplyTo(1)) \/ ReplyTo(1).k = "bad_echo"

\* C32 as stated: when the command of write_registers or rf_configuration does
\* not succeed, the caches are as they were before the call.
C32_CacheOnlyOnAck ==
    WriteNotAcknowledged =>
        /\ register_cache = call.pre_rc
        /\ rf_configuration_cache = call.pre_rf

\* the part of it that the code keeps: a mismatching echo raises and leaves the
\* caches alone
EchoMismatchKeepsCache ==
    WriteNotAcknowledged /\ ReplyTo(1).k = "bad_echo" =>
        /\ call.tag = "Raise"
        /\ register_cache = call.pre_rc
        /\ rf_configuration_cache = call.pre_rf

\* an unanswered write of registers changed the register cache
UnansweredWriteCached ==
    /\ IsCall("write_registers")
    /\ WriteNotAcknowledged
    /\ NoFrame(ReplyTo(1))
    /\ call.tag = "None"
    /\ register_cache # call.pre_rc

\* an unanswered RF configuration changed the configuration cache
UnansweredRfCached ==
    /\ IsCall("rf_configuration")
    /\ WriteNotAcknowledged
    /\ NoFrame(ReplyTo(1))
    /\ rf_configuration_cache # call.pre_rf

-----------------------------------------------------------------------------
(* C33 *)

\* the split is the longest prefix of frames with timestamps >= pivot, and the rest
SplitAt(frames, split, pivot) ==
    /\ split[1] \o split[2] = frames
    /\ \A i \in DOMAIN split[1] : split[1][i].timestamp >= pivot
    /\ split[2] # <<>> => split[2][1].timestamp < pivot

IsSplitCall == IsCall("split_frames_by_timestamp_wrap") /\ call.args.frames # <<>>

\* C33 as stated: not_wrapped ++ wrapped = frames, not_wrapped is the longest
\* prefix with timestamps >= the pivot, and the pivot is pivot_timestamp whenever
\* one is given (0 included), the first frame's timestamp only when none is.
C33_SplitByPivot ==
    IsSplitCall =>
        SplitAt(call.args.frames, call.val,
                IF call.args.pivot_timestamp = <<>>
                THEN call.args.frames[1].timestamp
                ELSE call.args.pivot_timestamp[1])

\* what the code does: a pivot of 0 gives way to the first frame's timestamp too
SplitByTruthyPivot ==
    IsSplitCall =>
        SplitAt(call.args.frames, call.val,
                IF call.args.pivot_timestamp \in {<<>>, <<0>>}
                THEN call.args.frames[1].timestamp
                ELSE call.args.pivot_timestamp[1])

\* a pivot of 0 was given and a frame was taken for wrapped all the same
ZeroPivotDropped ==
    /\ IsSplitCall
    /\ call.args.pivot_timestamp = <<0>>
    /\ call.val[2] # <<>>

-----------------------------------------------------------------------------
(* C34 *)

IsRadioOn(e) == e.command = "SetRadioState" /\ e.data = "on"

\* the i-th request of the connection went out after an Init and then a
\* SetRadioState(radio_on=True), and before any Close
AfterInitAndRadioOn(i) ==
    /\ \E j, k \in 1..(i - 1) :
           /\ j < k
           /\ sent[j].command = "Init"
           /\ IsRadioOn(sent[k])
    /\ \A j \in 1..(i - 1) : sent[j].command # "Close"

\* C34: as long as every Casimir operation completed, conn is None => rf_on is
\* False, and every SendApdu request went out on an open connection after an
\* Init and then a SetRadioState(radio_on=True) since the last Close; no
\* SetRadioState(radio_on=True) is sent by an operation that finds rf_on true.
C34_SessionInvariant ==
    /\ [](~failed =>
            /\ conn = "None" => ~rf_on
            /\ \A i \in DOMAIN sent : sent[i].command = "SendApdu" => AfterInitAndRadioOn(i))
    /\ [][sent' # sent /\ conn = "open" /\ rf_on =>
              \A i \in (Len(sent) + 1)..Len(sent') : ~IsRadioOn(sent'[i])]_vars

\* APDUs were exchanged twice on one connection, with the radio switched on once
C34_Witness ==
    /\ ~failed
    /\ conn = "open"
    /\ rf_on
    /\ Len(SelectSeq(sent, LAMBDA e : e.command = "SendApdu")) = 2
    /\ Len(SelectSeq(sent, IsRadioOn)) = 1

\* once an operation has failed, an APDU can go out with no Init before it
ApduWithoutInit ==
    /\ failed
    /\ \E i \in DOMAIN sent : sent[i].command = "SendApdu" /\ ~AfterInitAndRadioOn(i)

====
